---- MODULE Spec2Model ----
(***************************************************************************)
(* modem_exporter: the pull emitter (Exporter.Collect) and the push        *)
(* emitter (influxHandler) of main.go as state machines.  Every call to    *)
(* the modem-management service is one step; its result (an error or a    *)
(* value) is chosen by the environment.  The pure computation that follows *)
(* a call up to the next call (classification, parsing, emission) belongs  *)
(* to the step of that call.                                               *)
(***************************************************************************)
EXTENDS Integers, Sequences, FiniteSets, TLC

(***************************************************************************)
(* Bounds of the model.                                                    *)
(***************************************************************************)
\* the longest list GetModems returns
MaxModems == 2
\* the longest list GetBearers returns
MaxBearers == 2
\* the longest list GetCurrentSignals returns
MaxSamples == 2
\* how many answers of one push request differ from the usual ones without
\* ending a modem's turn
MaxDeviations == 2

(***************************************************************************)
(* Values of the modem-management service.                                 *)
(***************************************************************************)
\* MMModemState, in the order of its numeric values (String() names)
MmModemState ==
    << "Failed", "Unknown", "Initializing", "Locked", "Disabled", "Disabling",
       "Enabling", "Enabled", "Searching", "Registered", "Disconnecting",
       "Connecting", "Connected" >>

\* numeric rank of a state name in MmModemState
StateRank(s) == CHOOSE i \in 1..Len(MmModemState) : MmModemState[i] = s

\* the operational states the environment answers GetState with: Disabled,
\* a state below Registered, Registered, a state between Registered and
\* Connected, Connected
StateInputs == {"Disabled", "Enabled", "Registered", "Connecting", "Connected"}

\* every value of MMModemState: what the reads whose value is classified
\* (the second read of Collect, the read of influxHandler) answer with
AllStates == { MmModemState[i] : i \in 1..Len(MmModemState) }

\* ... and those a modem of a pass over several modems answers with
PlainStates == {"Disabled", "Registered", "Connected"}

\* the registration states the environment answers GetRegistrationState with
RegStateInputs == {"Home", "Roaming"}

\* the access-technology lists the environment answers with
RatInputs == { <<>>, <<"Lte">>, <<"Umts", "Lte">> }

\* strings.ToLower on the access-technology names
ToLower(s) ==
    CASE s = "Lte" -> "lte"
      [] s = "Umts" -> "umts"
      [] s = "Gsm" -> "gsm"
      [] OTHER -> s

\* the values MODEM_EXPORTER_APN takes
ApnInputs == {"", "internet"}

\* strings are sequences of one-character strings
HexDigits == <<"0","1","2","3","4","5","6","7","8","9","a","b","c","d","e","f">>
UpperHex == <<"0","1","2","3","4","5","6","7","8","9","A","B","C","D","E","F">>

\* the value of character c as a digit (36 when it is none), as strconv's
\* lower(c) digit table
DigitVal(c) ==
    IF \E i \in 1..16 : HexDigits[i] = c
    THEN (CHOOSE i \in 1..16 : HexDigits[i] = c) - 1
    ELSE IF \E i \in 1..16 : UpperHex[i] = c
         THEN (CHOOSE i \in 1..16 : UpperHex[i] = c) - 1
         ELSE 36

RECURSIVE ParseUintFrom(_, _, _, _)
\* strconv.ParseUint's digit loop over s[i..], n the value so far
ParseUintFrom(s, i, base, n) ==
    IF i > Len(s) THEN [ok |-> TRUE, val |-> n]
    ELSE IF DigitVal(s[i]) >= base THEN [ok |-> FALSE, val |-> 0]
         ELSE ParseUintFrom(s, i + 1, base, n * base + DigitVal(s[i]))

\* the digits of s without its leading zeros
RECURSIVE Significant(_)
Significant(s) ==
    IF Len(s) > 0 /\ s[1] = "0" THEN Significant(Tail(s)) ELSE s

\* every character of s is a digit of the base
AllDigits(s, base) == \A i \in DOMAIN s : DigitVal(s[i]) < base

\* the numeral a is at most the numeral b, both of one length and without
\* leading zeros
RECURSIVE NumeralLeq(_, _)
NumeralLeq(a, b) ==
    IF Len(a) = 0 THEN TRUE
    ELSE IF DigitVal(a[1]) # DigitVal(b[1]) THEN DigitVal(a[1]) < DigitVal(b[1])
         ELSE NumeralLeq(Tail(a), Tail(b))

\* the largest magnitude of an integer of bitSize bits, as a numeral of the
\* base: 1<<(bitSize-1) for a negative number, one less for a positive one
MaxMagnitude(base, bitSize, neg) ==
    CASE base = 16 /\ bitSize = 64 ->
           IF neg THEN <<"8">> \o [i \in 1..15 |-> "0"]
                  ELSE <<"7">> \o [i \in 1..15 |-> "f"]
      [] base = 10 /\ bitSize = 32 ->
           IF neg THEN <<"2","1","4","7","4","8","3","6","4","8">>
                  ELSE <<"2","1","4","7","4","8","3","6","4","7">>

\* the digits denote a magnitude an integer of bitSize bits can hold
Representable(digits, base, bitSize, neg) ==
    LET sig == Significant(digits)
        max == MaxMagnitude(base, bitSize, neg)
    IN  \/ Len(sig) < Len(max)
        \/ Len(sig) = Len(max) /\ NumeralLeq(sig, max)

\* strconv.ParseInt(s, base, bitSize) with base 10 or 16: an optional sign,
\* then at least one digit of the base, and a value in the range of
\* bitSize bits; [ok, val]
ParseInt(s, base, bitSize) ==
    IF Len(s) = 0 THEN [ok |-> FALSE, val |-> 0]
    ELSE LET neg == s[1] = "-"
             signed == s[1] = "-" \/ s[1] = "+"
             digits == IF signed THEN SubSeq(s, 2, Len(s)) ELSE s
         IN  IF Len(digits) = 0 \/ ~AllDigits(digits, base)
                \/ ~Representable(digits, base, bitSize, neg)
             THEN [ok |-> FALSE, val |-> 0]
             ELSE LET u == ParseUintFrom(digits, 1, base, 0)
                  IN  [ok |-> TRUE, val |-> IF neg THEN 0 - u.val ELSE u.val]

RECURSIVE Pow(_, _)
\* b to the power n
Pow(b, n) == IF n = 0 THEN 1 ELSE b * Pow(b, n - 1)

\* the position of the first character of s that is in cs, Len(s) + 1 when
\* there is none
IndexOf(s, cs) ==
    IF \E i \in DOMAIN s : s[i] \in cs
    THEN CHOOSE i \in DOMAIN s : s[i] \in cs /\ \A j \in 1..(i - 1) : s[j] \notin cs
    ELSE Len(s) + 1

\* lower(c) on the letters of "infinity", "nan" and the "0x" prefix
LowerChar(c) ==
    CASE c = "I" -> "i" [] c = "N" -> "n" [] c = "F" -> "f" [] c = "T" -> "t"
      [] c = "Y" -> "y" [] c = "A" -> "a" [] c = "X" -> "x" [] OTHER -> c

Lowered(s) == [i \in DOMAIN s |-> LowerChar(s[i])]

\* strconv.ParseFloat(s, 64): an optional sign, then "inf" or "infinity",
\* or (unsigned) "nan", or a mantissa of decimal digits with at most one
\* point and an optional exponent e[+-]digits, or after "0x" a mantissa of
\* hexadecimal digits with the exponent p[+-]digits; a value beyond the
\* largest float64 is an error.  val is the integer the float equals when
\* it is one, the name of the special value, or [mant, radix, exp] for
\* mant * radix^exp; the rounding of a float64 beyond 2^53 and the sign of
\* zero are not represented.
ParseFloat(s) ==
    LET fail == [ok |-> FALSE, val |-> 0]
        signed == Len(s) > 0 /\ s[1] \in {"+", "-"}
        neg == Len(s) > 0 /\ s[1] = "-"
        body == IF signed THEN Tail(s) ELSE s
        low == Lowered(body)
        hex == Len(low) >= 2 /\ low[1] = "0" /\ low[2] = "x"
        base == IF hex THEN 16 ELSE 10
        num == IF hex THEN SubSeq(body, 3, Len(body)) ELSE body
        e == IndexOf(num, IF hex THEN {"p", "P"} ELSE {"e", "E"})
        hasExp == e <= Len(num)
        mant == SubSeq(num, 1, e - 1)
        expo == SubSeq(num, e + 1, Len(num))
        dot == IndexOf(mant, {"."})
        digits == SubSeq(mant, 1, dot - 1) \o SubSeq(mant, dot + 1, Len(mant))
        fracLen == IF dot > Len(mant) THEN 0 ELSE Len(mant) - dot
        expSigned == Len(expo) > 0 /\ expo[1] \in {"+", "-"}
        expDigits == IF expSigned THEN Tail(expo) ELSE expo
        wellFormed == /\ Len(digits) > 0
                      /\ AllDigits(digits, base)
                      /\ hasExp => (Len(expDigits) > 0 /\ AllDigits(expDigits, 10))
                      /\ hex => hasExp
        m == ParseUintFrom(digits, 1, base, 0).val
        x == IF hasExp
             THEN (IF expo[1] = "-" THEN -1 ELSE 1) * ParseUintFrom(expDigits, 1, 10, 0).val
             ELSE 0
        radix == IF hex THEN 2 ELSE 10
        scale == x - (IF hex THEN 4 ELSE 1) * fracLen
        tooLarge == /\ Len(Significant(digits)) > 0
                    /\ IF hex THEN 4 * Len(Significant(digits)) + scale > 1024 + 4
                              ELSE Len(Significant(digits)) + scale > 309
        abs == IF Len(Significant(digits)) = 0 THEN 0
               ELSE IF scale >= 0 THEN m * Pow(radix, scale)
               ELSE IF m % Pow(radix, 0 - scale) = 0 THEN m \div Pow(radix, 0 - scale)
               ELSE [mant |-> m, radix |-> radix, exp |-> scale, neg |-> neg]
    IN  IF low \in {<<"i","n","f">>, <<"i","n","f","i","n","i","t","y">>}
        THEN [ok |-> TRUE, val |-> IF neg THEN "-Inf" ELSE "+Inf"]
        ELSE IF ~signed /\ low = <<"n","a","n">> THEN [ok |-> TRUE, val |-> "NaN"]
        ELSE IF ~wellFormed \/ tooLarge THEN fail
        ELSE [ok |-> TRUE, val |-> IF neg /\ abs \in Int THEN 0 - abs ELSE abs]

\* the location fields (Ci, Lac, Tac) the environment answers with
LocInputs ==
    { [Ci |-> <<"1","A">>, Lac |-> <<"2","b">>, Tac |-> <<"3">>],
      [Ci |-> <<>>,        Lac |-> <<"z","z">>, Tac |-> <<"3">>],
      [Ci |-> <<"0">>,     Lac |-> <<"f","F">>, Tac |-> <<"-","1">>],
      \* 2^64, a sign, 2^63
      [Ci |-> <<"1">> \o [i \in 1..16 |-> "0"], Lac |-> <<"+","1">>,
       Tac |-> <<"8">> \o [i \in 1..15 |-> "0"]],
      \* a prefix, the largest numeral of seven digits, leading zeros
      [Ci |-> <<"0","x","1">>, Lac |-> <<"7","f","f","f","f","f","f">>,
       Tac |-> [i \in 1..16 |-> "0"] \o <<"1">>] }

\* ... and the one a modem of a pass over several modems answers with
PlainLoc == { [Ci |-> <<"1","A">>, Lac |-> <<"2","b">>, Tac |-> <<"3">>] }

\* the operator codes the environment answers with
OpCodeInputs == { <<"3","1">>, <<>>, <<"a","b">>, <<"1","e","3">> }


(***************************************************************************)
(* State.                                                                  *)
(***************************************************************************)
VARIABLES
    endpoint, \* the path of the request: "/metrics" or "/influx"
    skipped,  \* the modems whose turn ended on a failed identity read
    apn,      \* os.Getenv("MODEM_EXPORTER_APN")
    pc,       \* the call the handler makes next
    modems,   \* the list GetModems returned
    idx,      \* position of the loop over modems (0 before the loop)
    state,    \* the loop body's variable state ("" before the first read)
    lv,       \* the loop body's label variables
    bearers,  \* the list GetBearers returned
    bi,       \* position of the loop over bearers
    calls,    \* the service calls made on the current modem, with results
    base,     \* how many outputs were sent before the current modem's turn
    ch,       \* the metrics sent on Collect's channel, in order
    tags,     \* influxHandler: the values of the tag set
    fields,   \* influxHandler: the values of modem_status's field set
    timestamp,  \* influxHandler: the loop body's variable timestamp
    bearerType, \* influxHandler: the bearer loop's variable bearerType
    now,      \* the clock
    w,        \* influxHandler: what was written to the response, in order
    status,   \* influxHandler: the response's status code
    dev,      \* how many answers of this request differed from the usual ones
    reqs,     \* requests served at the same time: each one's handler and place
    rate      \* the modems' signal refresh rate, as the last Setup left it

\* the variables of influxHandler alone
pushVars == <<tags, fields, timestamp, bearerType, now, w, status, dev>>

\* the variables of Collect alone
pullVars == <<endpoint, apn, state, lv, base, ch>>

\* the variables of requests served at the same time
flightVars == <<reqs, rate>>

vars == <<endpoint, skipped, apn, pc, modems, idx, state, lv, bearers, bi, calls, base, ch,
          tags, fields, timestamp, bearerType, now, w, status, dev, reqs, rate>>

\* the label variables before any read: Go's zero values
NoLabels ==
    [imei |-> 0, simIdent |-> 0, simImsi |-> 0, simOpIdent |-> 0,
     simOp |-> 0, opName |-> 0, rat |-> ""]

\* the value the service holds for an identity field of modem m
IdOf(m) == m

\* the labels of modem m's metrics when its access technology is r
LabelsOf(m, r) ==
    [imei |-> IdOf(m), simIdent |-> IdOf(m), simImsi |-> IdOf(m),
     simOpIdent |-> IdOf(m), simOp |-> IdOf(m), opName |-> IdOf(m), rat |-> r]

\* prometheus.MustNewConstMetric(desc, GaugeValue, value, labels...)
Metric(kind, labels, value) == [kind |-> kind, labels |-> labels, value |-> value]

\* The answers of the service to a successful call.  A pass over one modem
\* is explored with every answer (full) up to the reconciler; after the
\* reconciler ran, and in a pass over several modems, each call still fails
\* or succeeds, and a successful call answers from the smaller set (plain).
Answers(full, plain) ==
    IF Len(modems) > 1 \/ \E i \in DOMAIN calls : calls[i].call = "GetBearers"
    THEN plain
    ELSE full

\* The results of a call whose error Collect drops or only logs before it
\* goes on the same way: both in a pass over one modem, success in a pass
\* over several modems.
Logged == IF Len(modems) > 1 THEN {TRUE} ELSE BOOLEAN

\* one service call on the current modem: its name, its argument or the
\* value it returned (the state of GetState, the length of a list, the
\* bearer, the APN of Connect, the flag of Setup) and whether it returned
\* no error
Called(name, arg, ok) == calls' = Append(calls, [call |-> name, arg |-> arg, ok |-> ok])

\* sp.Rssi and sp.Rsrp of the i-th signal sample
Rssi(i) == 0 - (60 + i)
Rsrp(i) == 0 - (100 + i)

\* the tag variables before any read: Go's zero values
NoTags ==
    [imei |-> 0, simIdent |-> 0, simImsi |-> 0, simOpIdent |-> 0, simOp |-> 0,
     opName |-> 0, mcc |-> 0, mnc |-> 0, rat |-> "", phoneNumber |-> 0]

\* the field variables as declared, before any read (main.go 461-533)
NoFields ==
    [power_state |-> "Unknown", cellid |-> <<>>, lac |-> <<>>, tac |-> <<>>,
     registered |-> FALSE, connected |-> FALSE, state |-> "",
     operatorcode |-> 0, roaming |-> FALSE, regstate |-> "",
     signal_quality |-> 0, signal_quality_recent |-> FALSE,
     message_count |-> 0]

\* a request arrives at /metrics (Collect) or at /influx (influxHandler)
Arrival ==
    /\ apn \in ApnInputs
    /\ endpoint \in {"/metrics", "/influx"}
    /\ pc = IF endpoint = "/metrics" THEN "GetModems" ELSE "I_GetModems"
    /\ skipped = {}
    /\ tags = NoTags
    /\ fields = NoFields
    /\ timestamp = 0
    /\ bearerType = ""
    /\ now = 1
    /\ w = <<>>
    /\ status = 200
    /\ dev = 0
    /\ modems = <<>>
    /\ idx = 0
    /\ state = ""
    /\ lv = NoLabels
    /\ bearers = <<>>
    /\ bi = 0
    /\ calls = <<>>
    /\ base = 0
    /\ ch = <<>>

\* one request, served alone
Init ==
    /\ Arrival
    /\ reqs = <<>>
    /\ rate = <<>>

(***************************************************************************)
(* Exporter.Collect                                                        *)
(***************************************************************************)
\* GetModems with up sent before the error of the listing is looked at
GetModemsUpFirst ==
    /\ pc = "GetModems"
    /\ ch' = Append(ch, Metric("up", NoLabels, 1))
    /\ \/ /\ pc' = "listfail"
          /\ UNCHANGED modems
       \/ \E n \in 0..MaxModems :
            /\ modems' = [i \in 1..n |-> i]
            /\ pc' = "loop"
    /\ UNCHANGED <<flightVars, pushVars, endpoint, skipped, apn, idx, state, lv, bearers, bi, calls, base>>

\* main.go 110-118: list the modems, send up=1; a listing error returns at
\* line 113 (pc "listfail")
GetModems ==
    /\ pc = "GetModems"
    /\ \/ /\ pc' = "listfail"
          /\ UNCHANGED <<modems, ch>>
       \/ \E n \in 0..MaxModems :
            /\ modems' = [i \in 1..n |-> i]
            /\ ch' = Append(ch, Metric("up", NoLabels, 1))
            /\ pc' = "loop"
    /\ UNCHANGED <<flightVars, pushVars, endpoint, skipped, apn, idx, state, lv, bearers, bi, calls, base>>

\* main.go 120: the range loop takes the next modem or ends; a continue in
\* the body comes back here
LoopHead ==
    /\ pc = "loop"
    /\ IF idx < Len(modems)
       THEN /\ idx' = idx + 1
            /\ pc' = "GetState1"
            /\ state' = ""
            /\ lv' = NoLabels
            /\ calls' = <<>>
            /\ base' = Len(ch)
       ELSE /\ pc' = "done"
            /\ UNCHANGED <<idx, state, lv, calls, base>>
    /\ UNCHANGED <<flightVars, pushVars, endpoint, skipped, apn, modems, bearers, bi, ch>>

\* main.go 122-128: the first read of the operational state
GetState1 ==
    /\ pc = "GetState1"
    /\ \/ /\ Called("GetState", "", FALSE)
          /\ pc' = "loop"
          /\ UNCHANGED state
       \/ \E s \in Answers(StateInputs, PlainStates) :
            /\ Called("GetState", s, TRUE)
            /\ state' = s
            /\ pc' = IF s = "Disabled" THEN "Enable" ELSE "GetSim"
    /\ UNCHANGED <<flightVars, pushVars, endpoint, skipped, apn, modems, idx, lv, bearers, bi, ch, base>>

\* Enable with its error logged and the modem not skipped
EnableIgnoreError ==
    /\ pc = "Enable"
    /\ \E ok \in BOOLEAN : Called("Enable", 0, ok)
    /\ pc' = "GetSim"
    /\ UNCHANGED <<flightVars, pushVars, endpoint, skipped, apn, modems, idx, state, lv, bearers, bi, ch, base>>

\* main.go 130-134
Enable ==
    /\ pc = "Enable"
    /\ \E ok \in BOOLEAN :
         /\ Called("Enable", 0, ok)
         /\ pc' = IF ok THEN "GetSim" ELSE "loop"
    /\ UNCHANGED <<flightVars, pushVars, endpoint, skipped, apn, modems, idx, state, lv, bearers, bi, ch, base>>

\* the reads of the SIM and 3GPP identity of a modem
IdentityCalls ==
    {"GetSim", "GetSimIdentifier", "GetImsi", "GetOperatorIdentifier",
     "GetSimOperatorName", "Get3gpp", "GetImei", "GetOperatorName"}

\* the turn of the current modem ends on a failed identity read
Skipped(name, ok) ==
    skipped' = IF ~ok /\ name \in IdentityCalls
               THEN skipped \cup {modems[idx]}
               ELSE skipped

\* HandleRead with a return in place of the continue
HandleReadReturn(at, name, next) ==
    /\ pc = at
    /\ \E ok \in BOOLEAN :
         /\ Called(name, 0, ok)
         /\ Skipped(name, ok)
         /\ pc' = IF ok THEN next ELSE "done"
    /\ UNCHANGED <<flightVars, pushVars, endpoint, apn, modems, idx, state, lv, bearers, bi, ch, base>>

\* a read whose error skips the modem and whose value is not a label
HandleRead(at, name, next) ==
    /\ pc = at
    /\ \E ok \in BOOLEAN :
         /\ Called(name, 0, ok)
         /\ Skipped(name, ok)
         /\ pc' = IF ok THEN next ELSE "loop"
    /\ UNCHANGED <<flightVars, pushVars, endpoint, apn, modems, idx, state, lv, bearers, bi, ch, base>>

\* LabelRead with its error logged and the modem not skipped
LabelReadNoSkip(at, name, f, next) ==
    /\ pc = at
    /\ \E ok \in BOOLEAN :
         /\ Called(name, 0, ok)
         /\ Skipped(name, ok)
         /\ lv' = [lv EXCEPT ![f] = IF ok THEN IdOf(modems[idx]) ELSE 0]
    /\ pc' = next
    /\ UNCHANGED <<flightVars, pushVars, endpoint, apn, modems, idx, state, bearers, bi, ch, base>>

\* a read of identity field f whose error skips the modem
LabelRead(at, name, f, next) ==
    /\ pc = at
    /\ \E ok \in BOOLEAN :
         /\ Called(name, 0, ok)
         /\ Skipped(name, ok)
         /\ lv' = [lv EXCEPT ![f] = IF ok THEN IdOf(modems[idx]) ELSE 0]
         /\ pc' = IF ok THEN next ELSE "loop"
    /\ UNCHANGED <<flightVars, pushVars, endpoint, apn, modems, idx, state, bearers, bi, ch, base>>

\* main.go 137-141
GetSim == HandleRead("GetSim", "GetSim", "GetSimIdentifier")

\* main.go 143-147
GetSimIdentifier ==
    LabelRead("GetSimIdentifier", "GetSimIdentifier", "simIdent", "GetImsi")

\* main.go 149-153
GetImsi == LabelRead("GetImsi", "GetImsi", "simImsi", "GetOperatorIdentifier")

\* main.go 155-159
GetOperatorIdentifier ==
    LabelRead("GetOperatorIdentifier", "GetOperatorIdentifier", "simOpIdent",
              "GetSimOperatorName")

\* main.go 161-165: sim.GetOperatorName
GetSimOperatorName ==
    LabelRead("GetSimOperatorName", "GetSimOperatorName", "simOp", "Get3gpp")

\* main.go 167-171
Get3gpp == HandleRead("Get3gpp", "Get3gpp", "GetImei")

\* main.go 172-176
GetImei == LabelRead("GetImei", "GetImei", "imei", "GetOperatorName")

\* main.go 178-182: modem3gpp.GetOperatorName
GetOperatorName ==
    LabelRead("GetOperatorName", "GetOperatorName", "opName",
              "GetAccessTechnologies")

\* main.go 184-195: the list must hold exactly one technology
GetAccessTechnologies ==
    /\ pc = "GetAccessTechnologies"
    /\ \/ /\ Called("GetAccessTechnologies", 0, FALSE)
          /\ pc' = "loop"
          /\ UNCHANGED lv
       \/ \E ratList \in RatInputs :
            /\ Called("GetAccessTechnologies", Len(ratList), TRUE)
            /\ IF Len(ratList) # 1
               THEN pc' = "loop" /\ UNCHANGED lv
               ELSE /\ lv' = [lv EXCEPT !.rat = ToLower(ratList[1])]
                    /\ pc' = "GetState2"
    /\ UNCHANGED <<flightVars, pushVars, endpoint, skipped, apn, modems, idx, state, bearers, bi, ch, base>>

\* Reconcile without the test of the APN
ReconcileNoApn(s) == s = "Registered"

\* main.go 204-208: the reconciler runs when the state is Registered and an
\* APN is configured
Reconcile(s) == s = "Registered" /\ apn # ""

\* GetState2 with the value of the second read dropped
GetState2KeepFirst ==
    /\ pc = "GetState2"
    /\ \/ /\ Called("GetState", "", FALSE)
          /\ pc' = "loop"
       \/ \E s \in Answers(AllStates, PlainStates) :
            /\ Called("GetState", s, TRUE)
            /\ pc' = IF Reconcile(state) THEN "GetBearers" ELSE "EmitState"
    /\ UNCHANGED <<flightVars, pushVars, endpoint, skipped, apn, modems, idx, state, lv, bearers, bi, ch, base>>

\* main.go 197-208: the second read of the operational state
GetState2 ==
    /\ pc = "GetState2"
    /\ \/ /\ Called("GetState", "", FALSE)
          /\ pc' = "loop"
          /\ UNCHANGED state
       \/ \E s \in Answers(AllStates, PlainStates) :
            /\ Called("GetState", s, TRUE)
            /\ state' = s
            /\ pc' = IF Reconcile(s) THEN "GetBearers" ELSE "EmitState"
    /\ UNCHANGED <<flightVars, pushVars, endpoint, skipped, apn, modems, idx, lv, bearers, bi, ch, base>>

\* main.go 210-213: the error of GetBearers is dropped, the list is then empty
GetBearers ==
    /\ pc = "GetBearers"
    /\ \/ /\ Called("GetBearers", 0, FALSE)
          /\ bearers' = <<>>
          /\ bi' = 0
          /\ pc' = "GetSimpleModem"
       \/ \E n \in Answers(0..MaxBearers, {1}) :
            /\ Called("GetBearers", n, TRUE)
            /\ bearers' = [i \in 1..n |-> i]
            /\ bi' = IF n = 0 THEN 0 ELSE 1
            /\ pc' = IF n = 0 THEN "GetSimpleModem" ELSE "Disconnect"
    /\ UNCHANGED <<flightVars, pushVars, endpoint, skipped, apn, modems, idx, state, lv, ch, base>>

\* main.go 214: the result of Disconnect is dropped
Disconnect ==
    /\ pc = "Disconnect"
    /\ \E ok \in Logged : Called("Disconnect", bearers[bi], ok)
    /\ pc' = "DeleteBearer"
    /\ UNCHANGED <<flightVars, pushVars, endpoint, skipped, apn, modems, idx, state, lv, bearers, bi, ch, base>>

\* DeleteBearer with a break in place of the continue
DeleteBearerBreak ==
    /\ pc = "DeleteBearer"
    /\ \E ok \in Logged :
         /\ Called("DeleteBearer", bearers[bi], ok)
         /\ IF ok /\ bi < Len(bearers)
            THEN bi' = bi + 1 /\ pc' = "Disconnect"
            ELSE bi' = bi /\ pc' = "GetSimpleModem"
    /\ UNCHANGED <<flightVars, pushVars, endpoint, skipped, apn, modems, idx, state, lv, bearers, ch, base>>

\* main.go 215-220: an error is logged, the loop goes on
DeleteBearer ==
    /\ pc = "DeleteBearer"
    /\ \E ok \in Logged : Called("DeleteBearer", bearers[bi], ok)
    /\ IF bi < Len(bearers)
       THEN bi' = bi + 1 /\ pc' = "Disconnect"
       ELSE bi' = bi /\ pc' = "GetSimpleModem"
    /\ UNCHANGED <<flightVars, pushVars, endpoint, skipped, apn, modems, idx, state, lv, bearers, ch, base>>

\* main.go 222-225
GetSimpleModem ==
    /\ pc = "GetSimpleModem"
    /\ \E ok \in BOOLEAN :
         /\ Called("GetSimpleModem", 0, ok)
         /\ pc' = IF ok THEN "Connect" ELSE "EmitState"
    /\ UNCHANGED <<flightVars, pushVars, endpoint, skipped, apn, modems, idx, state, lv, bearers, bi, ch, base>>

\* Connect with a continue on the error
ConnectSkip ==
    /\ pc = "Connect"
    /\ \E ok \in Logged :
         /\ Called("Connect", apn, ok)
         /\ pc' = IF ok THEN "EmitState" ELSE "loop"
    /\ UNCHANGED <<flightVars, pushVars, endpoint, skipped, apn, modems, idx, state, lv, bearers, bi, ch, base>>

\* main.go 226-232: Connect with SimpleProperties{Apn: apn}
Connect ==
    /\ pc = "Connect"
    /\ \E ok \in Logged : Called("Connect", apn, ok)
    /\ pc' = "EmitState"
    /\ UNCHANGED <<flightVars, pushVars, endpoint, skipped, apn, modems, idx, state, lv, bearers, bi, ch, base>>

\* IsRegistered with the test for Connected left out
IsRegisteredOnly(s) == IF s = "Registered" THEN 1 ELSE 0

\* main.go 239: the registered gauge
IsRegistered(s) == IF s = "Registered" \/ s = "Connected" THEN 1 ELSE 0

\* main.go 249: the connected gauge
IsConnected(s) == IF s = "Connected" THEN 1 ELSE 0

\* EmitState with connected following a successful Connect
EmitStateAfterConnect ==
    /\ pc = "EmitState"
    /\ ch' = ch \o << Metric("registered", lv, IsRegistered(state)),
                      Metric("connected", lv,
                             IF \E i \in DOMAIN calls :
                                    calls[i].call = "Connect" /\ calls[i].ok
                             THEN 1 ELSE IsConnected(state)) >>
    /\ bearers' = <<>>
    /\ bi' = 0
    /\ pc' = "GetStateFailedReason"
    /\ UNCHANGED <<flightVars, pushVars, endpoint, skipped, apn, modems, idx, state, lv, calls, base>>

\* main.go 239-257: send registered and connected; the bearer list of the
\* reconciler's block is out of scope from here on
EmitState ==
    /\ pc = "EmitState"
    /\ ch' = ch \o << Metric("registered", lv, IsRegistered(state)),
                      Metric("connected", lv, IsConnected(state)) >>
    /\ bearers' = <<>>
    /\ bi' = 0
    /\ pc' = "GetStateFailedReason"
    /\ UNCHANGED <<flightVars, pushVars, endpoint, skipped, apn, modems, idx, state, lv, calls, base>>

\* main.go 260-264
GetStateFailedReason ==
    HandleRead("GetStateFailedReason", "GetStateFailedReason", "GetLocation")

\* main.go 266-270
GetLocation == HandleRead("GetLocation", "GetLocation", "GetCurrentLocation")

\* main.go 280-286, 289-295, 298-304: one location field, sent when it
\* parses as a base 16 integer
HexMetric(kind, labels, field) ==
    IF ParseInt(field, 16, 64).ok
    THEN << Metric(kind, labels, ParseInt(field, 16, 64).val) >>
    ELSE << >>

\* main.go 272-304
GetCurrentLocation ==
    /\ pc = "GetCurrentLocation"
    /\ \/ /\ Called("GetCurrentLocation", 0, FALSE)
          /\ pc' = "loop"
          /\ UNCHANGED ch
       \/ \E mloc \in Answers(LocInputs, PlainLoc) :
            /\ Called("GetCurrentLocation", mloc, TRUE)
            /\ ch' = ch \o HexMetric("cellid", lv, mloc.Ci)
                        \o HexMetric("lac", lv, mloc.Lac)
                        \o HexMetric("tac", lv, mloc.Tac)
            /\ pc' = "GetRegistrationState"
    /\ UNCHANGED <<flightVars, pushVars, endpoint, skipped, apn, modems, idx, state, lv, bearers, bi, base>>

\* main.go 312: the roaming gauge
IsRoaming(r) == IF r = "Roaming" THEN 1 ELSE 0

\* GetRegistrationState with its error logged and the next read made
GetRegistrationStateGoOn ==
    /\ pc = "GetRegistrationState"
    /\ \/ /\ Called("GetRegistrationState", 0, FALSE)
          /\ pc' = "GetOperatorCode"
          /\ UNCHANGED ch
       \/ \E regState \in Answers(RegStateInputs, {"Home"}) :
            /\ Called("GetRegistrationState", 0, TRUE)
            /\ ch' = Append(ch, Metric("roaming", lv, IsRoaming(regState)))
            /\ pc' = "GetOperatorCode"
    /\ UNCHANGED <<flightVars, pushVars, endpoint, skipped, apn, modems, idx, state, lv, bearers, bi, base>>

\* main.go 306-320
GetRegistrationState ==
    /\ pc = "GetRegistrationState"
    /\ \/ /\ Called("GetRegistrationState", 0, FALSE)
          /\ pc' = "loop"
          /\ UNCHANGED ch
       \/ \E regState \in Answers(RegStateInputs, {"Home"}) :
            /\ Called("GetRegistrationState", 0, TRUE)
            /\ ch' = Append(ch, Metric("roaming", lv, IsRoaming(regState)))
            /\ pc' = "GetOperatorCode"
    /\ UNCHANGED <<flightVars, pushVars, endpoint, skipped, apn, modems, idx, state, lv, bearers, bi, base>>

\* main.go 322-332: the operator code is sent when it parses as a float
GetOperatorCode ==
    /\ pc = "GetOperatorCode"
    /\ \/ /\ Called("GetOperatorCode", 0, FALSE)
          /\ pc' = "loop"
          /\ UNCHANGED ch
       \/ \E opCode \in Answers(OpCodeInputs, {<<"3","1">>}) :
            /\ Called("GetOperatorCode", opCode, TRUE)
            /\ ch' = IF ParseFloat(opCode).ok
                     THEN Append(ch, Metric("operatorcode", lv, ParseFloat(opCode).val))
                     ELSE ch
            /\ pc' = "GetSignal"
    /\ UNCHANGED <<flightVars, pushVars, endpoint, skipped, apn, modems, idx, state, lv, bearers, bi, base>>

\* main.go 334-338
GetSignal == HandleRead("GetSignal", "GetSignal", "SetupEnable")

\* SetupEnable going on to the delay and the read whatever Setup(1) returned
SetupEnableGoOn ==
    /\ pc = "SetupEnable"
    /\ \E ok \in BOOLEAN : Called("Setup", 1, ok)
    /\ pc' = "Sleep"
    /\ UNCHANGED <<flightVars, pushVars, endpoint, skipped, apn, modems, idx, state, lv, bearers, bi, ch, base>>

\* main.go 340-344: modemSignal.Setup(1)
SetupEnable == 
    /\ pc = "SetupEnable"
    /\ \E ok \in BOOLEAN :
         /\ Called("Setup", 1, ok)
         /\ pc' = IF ok THEN "Sleep" ELSE "loop"
    /\ UNCHANGED <<flightVars, pushVars, endpoint, skipped, apn, modems, idx, state, lv, bearers, bi, ch, base>>

\* main.go 346: time.Sleep(2 * time.Second); the clock counts in units of
\* 400 ms
Sleep ==
    /\ pc = "Sleep"
    /\ now' = now + 5
    /\ pc' = "GetCurrentSignals"
    /\ UNCHANGED <<flightVars, tags, fields, timestamp, bearerType, w, status, dev>>
    /\ UNCHANGED <<endpoint, skipped, apn, modems, idx, state, lv, bearers, bi, calls, ch, base>>

RECURSIVE SignalMetrics(_, _)
\* main.go 354-362: rssi and rsrp of each of the n samples, in order
SignalMetrics(labels, n) ==
    IF n = 0 THEN << >>
    ELSE SignalMetrics(labels, n - 1)
           \o << Metric("rssi", labels, Rssi(n)), Metric("rsrp", labels, Rsrp(n)) >>

\* main.go 348-362: an error of the read skips the rest of the loop body
GetCurrentSignals ==
    /\ pc = "GetCurrentSignals"
    /\ \/ /\ Called("GetCurrentSignals", 0, FALSE)
          /\ pc' = "loop"
          /\ UNCHANGED ch
       \/ \E n \in Answers(0..MaxSamples, {1}) :
            /\ Called("GetCurrentSignals", n, TRUE)
            /\ ch' = ch \o SignalMetrics(lv, n)
            /\ pc' = "SetupDisable"
    /\ UNCHANGED <<flightVars, pushVars, endpoint, skipped, apn, modems, idx, state, lv, bearers, bi, base>>

\* main.go 364-368: modemSignal.Setup(0)
SetupDisable ==
    /\ pc = "SetupDisable"
    /\ \E ok \in BOOLEAN : Called("Setup", 0, ok)
    /\ pc' = "loop"
    /\ UNCHANGED <<flightVars, pushVars, endpoint, skipped, apn, modems, idx, state, lv, bearers, bi, ch, base>>

NextCollect ==
    \/ GetModems \/ LoopHead \/ GetState1 \/ Enable \/ GetSim
    \/ GetSimIdentifier \/ GetImsi \/ GetOperatorIdentifier
    \/ GetSimOperatorName \/ Get3gpp \/ GetImei \/ GetOperatorName
    \/ GetAccessTechnologies \/ GetState2 \/ GetBearers \/ Disconnect
    \/ DeleteBearer \/ GetSimpleModem \/ Connect \/ EmitState
    \/ GetStateFailedReason \/ GetLocation \/ GetCurrentLocation
    \/ GetRegistrationState \/ GetOperatorCode \/ GetSignal \/ SetupEnable
    \/ Sleep \/ GetCurrentSignals \/ SetupDisable

(***************************************************************************)
(* influxHandler                                                           *)
(***************************************************************************)
\* the frame of a step of influxHandler that changes pc and the log only
PushFrame == UNCHANGED <<flightVars, pullVars, modems, idx, bearers, bi, skipped>>

\* The answers to a call whose error does not end the modem's turn: an
\* error (with the zero value) or one of the values of full.  Once the
\* request has had MaxDeviations answers other than the usual one (usual),
\* and in a pass over several modems, the answer is the usual one.
Soft(full, zero, usual) ==
    IF Len(modems) <= 1 /\ dev < MaxDeviations
    THEN { [ok |-> TRUE, val |-> v] : v \in full } \cup { [ok |-> FALSE, val |-> zero] }
    ELSE { [ok |-> TRUE, val |-> usual] }

\* an answer other than the usual one is counted
Spend(a, usual) == dev' = IF a.ok /\ a.val = usual THEN dev ELSE dev + 1

\* I_GetModems without the WriteHeader of the listing error
I_GetModemsNoHeader ==
    /\ pc = "I_GetModems"
    /\ \/ /\ w' = Append(w, [m |-> "error getting modems", tags |-> NoTags,
                             fields |-> <<>>, ts |-> 0])
          /\ pc' = "I_listfail"
          /\ UNCHANGED <<modems, status>>
       \/ \E n \in 0..MaxModems :
            /\ modems' = [i \in 1..n |-> i]
            /\ pc' = "I_loop"
            /\ UNCHANGED <<status, w>>
    /\ UNCHANGED <<flightVars, pullVars, skipped, idx, bearers, bi, calls, tags, fields,
                   timestamp, bearerType, now, dev>>

\* main.go 376-382: a listing error answers 500 with the error text
I_GetModems ==
    /\ pc = "I_GetModems"
    /\ \/ /\ status' = 500
          /\ w' = Append(w, [m |-> "error getting modems", tags |-> NoTags,
                             fields |-> <<>>, ts |-> 0])
          /\ pc' = "I_listfail"
          /\ UNCHANGED modems
       \/ \E n \in 0..MaxModems :
            /\ modems' = [i \in 1..n |-> i]
            /\ pc' = "I_loop"
            /\ UNCHANGED <<status, w>>
    /\ UNCHANGED <<flightVars, pullVars, skipped, idx, bearers, bi, calls, tags, fields,
                   timestamp, bearerType, now, dev>>

\* main.go 383: the range loop takes the next modem or ends
I_LoopHead ==
    /\ pc = "I_loop"
    /\ IF idx < Len(modems)
       THEN /\ idx' = idx + 1
            /\ pc' = "I_Get3gpp"
            /\ tags' = NoTags
            /\ fields' = NoFields
            /\ timestamp' = 0
            /\ bearerType' = ""
            /\ bearers' = <<>>
            /\ bi' = 0
            /\ calls' = <<>>
            /\ base' = Len(w)
       ELSE /\ pc' = "I_done"
            /\ UNCHANGED <<idx, tags, fields, timestamp, bearerType, bearers,
                           bi, calls, base>>
    /\ UNCHANGED <<endpoint, skipped, apn, state, lv, ch, modems, now, w,
                   status, dev, flightVars>>

\* a read whose error skips the modem and whose value is no tag
I_HardRead(at, name, next) ==
    /\ pc = at
    /\ \E ok \in BOOLEAN :
         /\ Called(name, 0, ok)
         /\ Skipped(name, ok)
         /\ pc' = IF ok THEN next ELSE "I_loop"
    /\ UNCHANGED <<flightVars, pullVars, modems, idx, bearers, bi, pushVars>>

\* a read of tag t whose error skips the modem
I_HardTag(at, name, t, next) ==
    /\ pc = at
    /\ \E ok \in BOOLEAN :
         /\ Called(name, 0, ok)
         /\ Skipped(name, ok)
         /\ tags' = [tags EXCEPT ![t] = IF ok THEN IdOf(modems[idx]) ELSE 0]
         /\ pc' = IF ok THEN next ELSE "I_loop"
    /\ UNCHANGED <<flightVars, pullVars, modems, idx, bearers, bi>>
    /\ UNCHANGED <<fields, timestamp, bearerType, now, w, status, dev>>

\* a read of tag t whose error is logged (or dropped) and nothing else
I_SoftTag(at, name, t, next) ==
    /\ pc = at
    /\ \E a \in Soft({IdOf(modems[idx])}, 0, IdOf(modems[idx])) :
         /\ Called(name, 0, a.ok)
         /\ Spend(a, IdOf(modems[idx]))
         /\ tags' = [tags EXCEPT ![t] = a.val]
    /\ pc' = next
    /\ PushFrame
    /\ UNCHANGED <<fields, timestamp, bearerType, now, w, status>>

\* main.go 384-388
I_Get3gpp == I_HardRead("I_Get3gpp", "Get3gpp", "I_GetImei")

\* main.go 389: the error of GetImei is dropped
I_GetImei == I_SoftTag("I_GetImei", "GetImei", "imei", "I_GetSim")

\* main.go 390-394
I_GetSim == I_HardRead("I_GetSim", "GetSim", "I_GetSimIdentifier")

\* main.go 395-399
I_GetSimIdentifier ==
    I_HardTag("I_GetSimIdentifier", "GetSimIdentifier", "simIdent", "I_GetImsi")

\* main.go 400-404
I_GetImsi == I_HardTag("I_GetImsi", "GetImsi", "simImsi", "I_GetOperatorIdentifier")

\* main.go 406-409
I_GetOperatorIdentifier ==
    I_SoftTag("I_GetOperatorIdentifier", "GetOperatorIdentifier", "simOpIdent",
              "I_GetSimOperatorName")

\* main.go 410-413: sim.GetOperatorName
I_GetSimOperatorName ==
    I_SoftTag("I_GetSimOperatorName", "GetSimOperatorName", "simOp",
              "I_GetOperatorName")

\* main.go 415-418: modem3gpp.GetOperatorName
I_GetOperatorName ==
    I_SoftTag("I_GetOperatorName", "GetOperatorName", "opName", "I_GetMcc")

\* main.go 420-423
I_GetMcc == I_SoftTag("I_GetMcc", "GetMcc", "mcc", "I_GetMnc")

\* main.go 424-427
I_GetMnc == I_SoftTag("I_GetMnc", "GetMnc", "mnc", "I_GetAccessTechnologies")

\* RatOf taking the last technology of the list
RatOfLast(ratList) ==
    IF Len(ratList) > 0 THEN ToLower(ratList[Len(ratList)]) ELSE ""

\* main.go 434-440: the first technology, lowercased, or the empty string
RatOf(ratList) == IF Len(ratList) > 0 THEN ToLower(ratList[1]) ELSE ""

\* main.go 429-440: only an error skips the modem
I_GetAccessTechnologies ==
    /\ pc = "I_GetAccessTechnologies"
    /\ \/ /\ Called("GetAccessTechnologies", 0, FALSE)
          /\ pc' = "I_loop"
          /\ UNCHANGED <<tags, dev>>
       \/ \E a \in Soft(RatInputs, <<>>, <<"Lte">>) :
            /\ a.ok
            /\ Called("GetAccessTechnologies", a.val, TRUE)
            /\ Spend(a, <<"Lte">>)
            /\ tags' = [tags EXCEPT !.rat = RatOf(a.val)]
            /\ pc' = "I_GetOwnNumbers"
    /\ PushFrame
    /\ UNCHANGED <<fields, timestamp, bearerType, now, w, status>>

\* main.go 442-459: the first own number, if any; then the tag set is
\* formatted and the timestamp is taken
I_GetOwnNumbers ==
    /\ pc = "I_GetOwnNumbers"
    /\ \E a \in Soft(0..2, 0, 1) :
         /\ Called("GetOwnNumbers", a.val, a.ok)
         /\ Spend(a, 1)
         /\ tags' = [tags EXCEPT !.phoneNumber =
                        IF a.ok /\ a.val > 0 THEN IdOf(modems[idx]) ELSE 0]
    /\ timestamp' = now
    /\ pc' = "I_GetPowerState"
    /\ PushFrame
    /\ UNCHANGED <<fields, bearerType, now, w, status>>

\* a read of one field of modem_status; on an error the variable keeps the
\* value zero
I_FieldRead(at, name, f, full, zero, usual, next) ==
    /\ pc = at
    /\ \E a \in Soft(full, zero, usual) :
         /\ Called(name, 0, a.ok)
         /\ Spend(a, usual)
         /\ fields' = [fields EXCEPT ![f] = a.val]
    /\ pc' = next
    /\ PushFrame
    /\ UNCHANGED <<tags, timestamp, bearerType, now, w, status>>

\* main.go 461-464: on an error powerState is the zero value, Unknown
I_GetPowerState ==
    I_FieldRead("I_GetPowerState", "GetPowerState", "power_state",
                {"On", "Low"}, "Unknown", "On", "I_GetSignalQuality")

\* main.go 466-469
I_GetSignalQuality ==
    /\ pc = "I_GetSignalQuality"
    /\ \E a \in Soft({<<80, TRUE>>, <<0, FALSE>>}, <<0, FALSE>>, <<80, TRUE>>) :
         /\ Called("GetSignalQuality", 0, a.ok)
         /\ Spend(a, <<80, TRUE>>)
         /\ fields' = [fields EXCEPT !.signal_quality = a.val[1],
                                     !.signal_quality_recent = a.val[2]]
    /\ pc' = "I_GetLocation"
    /\ PushFrame
    /\ UNCHANGED <<tags, timestamp, bearerType, now, w, status>>

\* I_GetLocation with a continue on the error
I_GetLocationSkip ==
    /\ pc = "I_GetLocation"
    /\ \E a \in Soft({0}, 0, 0) :
         /\ Called("GetLocation", 0, a.ok)
         /\ Spend(a, 0)
         /\ pc' = IF a.ok THEN "I_GetCurrentLocation" ELSE "I_loop"
    /\ PushFrame
    /\ UNCHANGED <<tags, fields, timestamp, bearerType, now, w, status>>

\* main.go 474-477: on an error the three strings stay empty
I_GetLocation ==
    /\ pc = "I_GetLocation"
    /\ \E a \in Soft({0}, 0, 0) :
         /\ Called("GetLocation", 0, a.ok)
         /\ Spend(a, 0)
         /\ pc' = IF a.ok THEN "I_GetCurrentLocation" ELSE "I_GetRegistrationState"
    /\ PushFrame
    /\ UNCHANGED <<tags, fields, timestamp, bearerType, now, w, status>>

\* main.go 478-486
I_GetCurrentLocation ==
    /\ pc = "I_GetCurrentLocation"
    /\ \E a \in Soft(LocInputs, [Ci |-> <<>>, Lac |-> <<>>, Tac |-> <<>>],
                     CHOOSE l \in PlainLoc : TRUE) :
         /\ Called("GetCurrentLocation", 0, a.ok)
         /\ Spend(a, CHOOSE l \in PlainLoc : TRUE)
         /\ fields' = IF a.ok
                      THEN [fields EXCEPT !.cellid = a.val.Ci, !.lac = a.val.Lac,
                                          !.tac = a.val.Tac]
                      ELSE fields
    /\ pc' = "I_GetRegistrationState"
    /\ PushFrame
    /\ UNCHANGED <<tags, timestamp, bearerType, now, w, status>>

\* main.go 488-498
I_GetRegistrationState ==
    /\ pc = "I_GetRegistrationState"
    /\ \E a \in Soft(RegStateInputs, "", "Home") :
         /\ Called("GetRegistrationState", 0, a.ok)
         /\ Spend(a, "Home")
         /\ fields' = [fields EXCEPT
                         !.regstate = IF a.ok THEN a.val ELSE "unknown",
                         !.roaming = IF a.ok THEN a.val = "Roaming" ELSE FALSE]
    /\ pc' = "I_GetState"
    /\ PushFrame
    /\ UNCHANGED <<tags, timestamp, bearerType, now, w, status>>

\* main.go 510: isRegistered = state >= modemmanager.MmModemStateRegistered
I_IsRegistered(s) == StateRank(s) >= StateRank("Registered")

\* main.go 511: isConnected = state == modemmanager.MmModemStateConnected
I_IsConnected(s) == s = "Connected"

\* main.go 500-512: registered is state >= Registered, connected is
\* state == Connected
I_GetState ==
    /\ pc = "I_GetState"
    /\ \E a \in Soft(AllStates, "", "Connected") :
         /\ Called("GetState", a.val, a.ok)
         /\ Spend(a, "Connected")
         /\ fields' = [fields EXCEPT
                         !.state = IF a.ok THEN a.val ELSE "unknown",
                         !.registered = IF a.ok THEN I_IsRegistered(a.val) ELSE FALSE,
                         !.connected = IF a.ok THEN I_IsConnected(a.val) ELSE FALSE]
    /\ pc' = "I_GetOperatorCode"
    /\ PushFrame
    /\ UNCHANGED <<tags, timestamp, bearerType, now, w, status>>

\* main.go 515-530: 0 on an error, on the empty string and on a string that
\* does not parse
OpCodeInt(ok, opCode) ==
    IF ~ok THEN 0
    ELSE IF opCode = <<>> THEN 0
         ELSE IF ParseInt(opCode, 10, 32).ok
              THEN ParseInt(opCode, 10, 32).val
              ELSE 0

\* main.go 514-530
I_GetOperatorCode ==
    /\ pc = "I_GetOperatorCode"
    /\ \E a \in Soft(OpCodeInputs, <<>>, <<"3","1">>) :
         /\ Called("GetOperatorCode", IF a.ok THEN a.val ELSE 0, a.ok)
         /\ Spend(a, <<"3","1">>)
         /\ fields' = [fields EXCEPT !.operatorcode = OpCodeInt(a.ok, a.val)]
    /\ pc' = "I_GetMessaging"
    /\ PushFrame
    /\ UNCHANGED <<tags, timestamp, bearerType, now, w, status>>

\* main.go 534-536
I_GetMessaging ==
    /\ pc = "I_GetMessaging"
    /\ \E a \in Soft({0}, 0, 0) :
         /\ Called("GetMessaging", 0, a.ok)
         /\ Spend(a, 0)
         /\ pc' = IF a.ok THEN "I_List" ELSE "I_WriteStatus"
    /\ PushFrame
    /\ UNCHANGED <<tags, fields, timestamp, bearerType, now, w, status>>

\* main.go 538-543: the number of messages
I_List ==
    I_FieldRead("I_List", "List", "message_count", 0..1, 0, 1, "I_WriteStatus")

\* one line of the response
Record(m, t, f, ts) == [m |-> m, tags |-> t, fields |-> f, ts |-> ts]

\* main.go 547-550: the one modem_status line
I_WriteStatus ==
    /\ pc = "I_WriteStatus"
    /\ w' = Append(w, Record("modem_status", tags, fields, timestamp))
    /\ pc' = "I_GetSignal"
    /\ UNCHANGED <<flightVars, pullVars, skipped, modems, idx, bearers, bi, calls, tags,
                   fields, timestamp, bearerType, now, status, dev>>

\* a call of the signal block whose error is logged: onOk and onErr are the
\* calls that follow
I_SignalCall(at, name, arg, onOk, onErr) ==
    /\ pc = at
    /\ \E a \in Soft({0}, 0, 0) :
         /\ Called(name, arg, a.ok)
         /\ Spend(a, 0)
         /\ pc' = IF a.ok THEN onOk ELSE onErr
    /\ PushFrame
    /\ UNCHANGED <<tags, fields, timestamp, bearerType, now, w, status>>

\* main.go 553-555
I_GetSignal == I_SignalCall("I_GetSignal", "GetSignal", 0, "I_SetupEnable", "I_GetBearers")

\* main.go 557-559: modemSignal.Setup(1)
I_SetupEnable == I_SignalCall("I_SetupEnable", "Setup", 1, "I_Sleep", "I_GetBearers")

\* main.go 561: time.Sleep(400 * time.Millisecond)
I_Sleep ==
    /\ pc = "I_Sleep"
    /\ now' = now + 1
    /\ pc' = "I_GetGsm"
    /\ UNCHANGED <<flightVars, pullVars, skipped, modems, idx, bearers, bi, calls, tags,
                   fields, timestamp, bearerType, w, status, dev>>

\* I_SignalRead taking the time anew for its line
I_SignalReadNow(at, name, type, next) ==
    /\ pc = at
    /\ \E a \in Soft({0}, 0, 0) :
         /\ Called(name, 0, a.ok)
         /\ Spend(a, 0)
         /\ w' = IF a.ok
                 THEN Append(w, Record("modem_signal", tags, <<type>>, now))
                 ELSE w
    /\ pc' = next
    /\ PushFrame
    /\ UNCHANGED <<tags, fields, timestamp, bearerType, now, status>>

\* a read of one signal; its line is written when the read succeeds
I_SignalRead(at, name, type, next) ==
    /\ pc = at
    /\ \E a \in Soft({0}, 0, 0) :
         /\ Called(name, 0, a.ok)
         /\ Spend(a, 0)
         /\ w' = IF a.ok
                 THEN Append(w, Record("modem_signal", tags, <<type>>, timestamp))
                 ELSE w
    /\ pc' = next
    /\ PushFrame
    /\ UNCHANGED <<tags, fields, timestamp, bearerType, now, status>>

\* main.go 562-569
I_GetGsm == I_SignalRead("I_GetGsm", "GetGsm", "gsm", "I_GetLte")

\* I_GetLte leaving the signal block when the read fails
I_GetLteLeave ==
    /\ pc = "I_GetLte"
    /\ \E a \in Soft({0}, 0, 0) :
         /\ Called("GetLte", 0, a.ok)
         /\ Spend(a, 0)
         /\ w' = IF a.ok
                 THEN Append(w, Record("modem_signal", tags, <<"lte">>, timestamp))
                 ELSE w
         /\ pc' = IF a.ok THEN "I_SetupDisable" ELSE "I_GetBearers"
    /\ PushFrame
    /\ UNCHANGED <<tags, fields, timestamp, bearerType, now, status>>

\* main.go 571-578
I_GetLte == I_SignalRead("I_GetLte", "GetLte", "lte", "I_SetupDisable")

\* main.go 580-582: modemSignal.Setup(0)
I_SetupDisable ==
    I_SignalCall("I_SetupDisable", "Setup", 0, "I_GetBearers", "I_GetBearers")

\* main.go 586-587: the error of GetBearers is dropped
I_GetBearers ==
    /\ pc = "I_GetBearers"
    /\ \E a \in Soft(0..MaxBearers, 0, 1) :
         /\ Called("GetBearers", a.val, a.ok)
         /\ Spend(a, 1)
         /\ bearers' = [i \in 1..a.val |-> i]
         /\ bi' = IF a.val = 0 THEN 0 ELSE 1
         /\ pc' = IF a.val = 0 THEN "I_loop" ELSE "I_GetBearerType"
    /\ UNCHANGED <<flightVars, pullVars, skipped, modems, idx, tags, fields, timestamp,
                   bearerType, now, w, status>>

\* I_GetBearerType disconnecting the bearer first, as Collect's loop over
\* the bearers does
I_GetBearerTypeDisconnect ==
    /\ pc = "I_GetBearerType"
    /\ \E a \in Soft({"Default"}, "Unknown", "Default") :
         /\ calls' = calls \o << [call |-> "Disconnect", arg |-> bearers[bi], ok |-> TRUE],
                                 [call |-> "GetBearerType", arg |-> bearers[bi], ok |-> a.ok] >>
         /\ Spend(a, "Default")
         /\ bearerType' = a.val
    /\ pc' = "I_GetStats"
    /\ PushFrame
    /\ UNCHANGED <<tags, fields, timestamp, now, w, status>>

\* main.go 588-593: Unknown on an error
I_GetBearerType ==
    /\ pc = "I_GetBearerType"
    /\ \E a \in Soft({"Default"}, "Unknown", "Default") :
         /\ Called("GetBearerType", bearers[bi], a.ok)
         /\ Spend(a, "Default")
         /\ bearerType' = a.val
    /\ pc' = "I_GetStats"
    /\ PushFrame
    /\ UNCHANGED <<tags, fields, timestamp, now, w, status>>

\* a read of a bearer; its line is written when the read succeeds
I_BearerRead(at, name, m, next) ==
    /\ pc = at
    /\ \E a \in Soft({0}, 0, 0) :
         /\ Called(name, bearers[bi], a.ok)
         /\ Spend(a, 0)
         /\ w' = IF a.ok
                 THEN Append(w, Record(m, tags, <<bearerType, bearers[bi]>>, timestamp))
                 ELSE w
    /\ pc' = next
    /\ PushFrame
    /\ UNCHANGED <<tags, fields, timestamp, bearerType, now, status>>

\* main.go 594-599
I_GetStats == I_BearerRead("I_GetStats", "GetStats", "modem_bearer_stats", "I_GetIp4Config")

\* main.go 601-606
I_GetIp4Config ==
    I_BearerRead("I_GetIp4Config", "GetIp4Config", "modem_bearer_ip_config",
                 "I_GetIp6Config")

\* main.go 608-614: the last read of a bearer; the loop takes the next one
I_GetIp6Config ==
    /\ pc = "I_GetIp6Config"
    /\ \E a \in Soft({0}, 0, 0) :
         /\ Called("GetIp6Config", bearers[bi], a.ok)
         /\ Spend(a, 0)
         /\ w' = IF a.ok
                 THEN Append(w, Record("modem_bearer_ip6_config", tags,
                                       <<bearerType, bearers[bi]>>, timestamp))
                 ELSE w
    /\ IF bi < Len(bearers)
       THEN bi' = bi + 1 /\ pc' = "I_GetBearerType"
       ELSE bi' = bi /\ pc' = "I_loop"
    /\ UNCHANGED <<flightVars, pullVars, skipped, modems, idx, bearers, tags, fields,
                   timestamp, bearerType, now, status>>

NextInflux ==
    \/ I_GetModems \/ I_LoopHead \/ I_Get3gpp \/ I_GetImei \/ I_GetSim
    \/ I_GetSimIdentifier \/ I_GetImsi \/ I_GetOperatorIdentifier
    \/ I_GetSimOperatorName \/ I_GetOperatorName \/ I_GetMcc \/ I_GetMnc
    \/ I_GetAccessTechnologies \/ I_GetOwnNumbers \/ I_GetPowerState
    \/ I_GetSignalQuality \/ I_GetLocation \/ I_GetCurrentLocation
    \/ I_GetRegistrationState \/ I_GetState \/ I_GetOperatorCode
    \/ I_GetMessaging \/ I_List \/ I_WriteStatus \/ I_GetSignal
    \/ I_SetupEnable \/ I_Sleep \/ I_GetGsm \/ I_GetLte \/ I_SetupDisable
    \/ I_GetBearers \/ I_GetBearerType \/ I_GetStats \/ I_GetIp4Config
    \/ I_GetIp6Config

Next == NextCollect \/ NextInflux

Spec == Init /\ [][Next]_vars

\* a request to /metrics alone, a request to /influx alone
InitCollect == Init /\ endpoint = "/metrics"
SpecCollect == InitCollect /\ [][NextCollect]_vars

InitInflux == Init /\ endpoint = "/influx"
SpecInflux == InitInflux /\ [][NextInflux]_vars

(***************************************************************************)
(* Requests served at the same time.  main registers Collect (through the  *)
(* registry's handler) and influxHandler with net/http and calls           *)
(* http.ListenAndServe, which serves every connection in a goroutine of    *)
(* its own; neither handler takes a lock.  Each request walks the modem    *)
(* list as above; of its calls only Setup changes what the other request   *)
(* sees, the refresh rate of the modem's signal, so the calls before the   *)
(* signal block are one step here and the bearer reads that follow it are  *)
(* part of the step that leaves the block.                                 *)
(***************************************************************************)
\* the requests in flight
Requests == {"first", "second"}

\* the paths main registers a handler of modems at
Handlers == {"/metrics", "/influx"}

\* request r goes to place p, the rates as they are
GoTo(r, p) == reqs' = [reqs EXCEPT ![r].pc = p]

\* a step of one of the requests leaves the request served alone as it is
ServeFrame ==
    UNCHANGED <<endpoint, skipped, apn, pc, modems, idx, state, lv, bearers, bi,
                calls, base, ch, tags, fields, timestamp, bearerType, now, w,
                status, dev>>

\* main.go 110-118 and 376-382: the list of the modems there are
R_GetModems ==
    /\ \E r \in Requests :
         /\ reqs[r].pc = "GetModems"
         /\ \/ reqs' = [reqs EXCEPT ![r].pc = "done"]
            \/ reqs' = [reqs EXCEPT ![r].pc = "loop", ![r].n = Len(rate)]
    /\ UNCHANGED rate
    /\ ServeFrame

\* main.go 120 and 383
R_LoopHead ==
    /\ \E r \in Requests :
         /\ reqs[r].pc = "loop"
         /\ reqs' = IF reqs[r].idx < reqs[r].n
                    THEN [reqs EXCEPT ![r].pc = "Reads", ![r].idx = reqs[r].idx + 1]
                    ELSE [reqs EXCEPT ![r].pc = "done"]
    /\ UNCHANGED rate
    /\ ServeFrame

\* main.go 122-332 and 384-550: the calls before the signal block; an error
\* that ends the modem's turn, or none
R_Reads ==
    /\ \E r \in Requests :
         /\ reqs[r].pc = "Reads"
         /\ \E ok \in BOOLEAN : GoTo(r, IF ok THEN "GetSignal" ELSE "loop")
    /\ UNCHANGED rate
    /\ ServeFrame

\* main.go 334-338 and 553-555
R_GetSignal ==
    /\ \E r \in Requests :
         /\ reqs[r].pc = "GetSignal"
         /\ \E ok \in BOOLEAN : GoTo(r, IF ok THEN "SetupEnable" ELSE "loop")
    /\ UNCHANGED rate
    /\ ServeFrame

\* main.go 340-344 and 557-559: modemSignal.Setup(1) sets the modem's rate
R_SetupEnable ==
    /\ \E r \in Requests :
         /\ reqs[r].pc = "SetupEnable"
         /\ \/ /\ GoTo(r, "loop")
               /\ UNCHANGED rate
            \/ /\ GoTo(r, "Sleep")
               /\ rate' = [rate EXCEPT ![reqs[r].idx] = 1]
    /\ ServeFrame

\* main.go 346 and 561
R_Sleep ==
    /\ \E r \in Requests :
         /\ reqs[r].pc = "Sleep"
         /\ GoTo(r, IF reqs[r].endpoint = "/metrics" THEN "GetCurrentSignals"
                                                     ELSE "GetGsm")
    /\ UNCHANGED rate
    /\ ServeFrame

\* main.go 348-362: an error of the read skips the rest of the loop body
R_GetCurrentSignals ==
    /\ \E r \in Requests :
         /\ reqs[r].pc = "GetCurrentSignals"
         /\ \E ok \in BOOLEAN : GoTo(r, IF ok THEN "SetupDisable" ELSE "loop")
    /\ UNCHANGED rate
    /\ ServeFrame

\* main.go 562-569
R_GetGsm ==
    /\ \E r \in Requests :
         /\ reqs[r].pc = "GetGsm"
         /\ GoTo(r, "GetLte")
    /\ UNCHANGED rate
    /\ ServeFrame

\* main.go 571-578
R_GetLte ==
    /\ \E r \in Requests :
         /\ reqs[r].pc = "GetLte"
         /\ GoTo(r, "SetupDisable")
    /\ UNCHANGED rate
    /\ ServeFrame

\* main.go 364-368 and 580-582: modemSignal.Setup(0) resets the modem's rate
\* unless the call fails
R_SetupDisable ==
    /\ \E r \in Requests :
         /\ reqs[r].pc = "SetupDisable"
         /\ GoTo(r, "loop")
         /\ \/ UNCHANGED rate
            \/ rate' = [rate EXCEPT ![reqs[r].idx] = 0]
    /\ ServeFrame

NextServe ==
    \/ R_GetModems \/ R_LoopHead \/ R_Reads \/ R_GetSignal \/ R_SetupEnable
    \/ R_Sleep \/ R_GetCurrentSignals \/ R_GetGsm \/ R_GetLte \/ R_SetupDisable

\* two requests arrive, each at either path, with one to MaxModems modems
\* plugged in and their rate not raised; the variables of the request
\* served alone stay as they are
InitServe ==
    /\ Arrival
    /\ endpoint = "/metrics"
    /\ apn = ""
    /\ \E n \in 1..MaxModems : rate = [m \in 1..n |-> 0]
    /\ reqs \in [Requests -> { [endpoint |-> e, pc |-> "GetModems", idx |-> 0, n |-> 0] :
                                e \in Handlers }]

SpecServe == InitServe /\ [][NextServe]_vars

(***************************************************************************)
(* Reading the log and the output.                                         *)
(***************************************************************************)
\* the metrics sent during the current modem's turn
Mine == SubSeq(ch, base + 1, Len(ch))

\* the positions of the calls of a name in the current modem's log
CallsOf(name) == { i \in DOMAIN calls : calls[i].call = name }

\* the positions of the metrics of a kind sent during the current modem's turn
MineOf(kind) == { i \in DOMAIN Mine : Mine[i].kind = kind }

\* the log holds a second, successful read of the operational state
HasSecondRead == \E i \in CallsOf("GetState") : i > 1 /\ calls[i].ok

\* the state that second read returned
SecondRead == calls[CHOOSE i \in CallsOf("GetState") : i > 1].arg

\* the calls that read or change the bearers of a modem
BearerOps == {"GetBearers", "Disconnect", "DeleteBearer", "Connect"}

\* Collect is between two modems or has returned
TurnOver == pc \in {"loop", "done"}

\* the request is served by Collect, by influxHandler
InCollect == endpoint = "/metrics"
InInflux == endpoint = "/influx"

\* what was written to the response during the current modem's turn
Written == SubSeq(w, base + 1, Len(w))

(***************************************************************************)
(* C1.  For every modem on which Setup(enable) succeeded, Setup(disable)   *)
(* is called before Collect moves on to the next modem or returns, also    *)
(* when GetCurrentSignals fails.                                           *)
(***************************************************************************)
C1_DisableBeforeMovingOn ==
    TurnOver =>
        \A i \in CallsOf("Setup") :
            (calls[i].arg = 1 /\ calls[i].ok) =>
                \E j \in CallsOf("Setup") : j > i /\ calls[j].arg = 0

(***************************************************************************)
(* C2.  A labelled metric is sent for a modem only after ICC, IMSI, SIM    *)
(* operator identifier, SIM operator name, IMEI and network operator name  *)
(* were all read without error in this pass and the access-technology list *)
(* had exactly one element: the log of the current modem holds these       *)
(* successful reads, and every labelled metric of the pass carries the six *)
(* values of one modem and a technology.                                   *)
(***************************************************************************)
IdentityReads ==
    {"GetSimIdentifier", "GetImsi", "GetOperatorIdentifier",
     "GetSimOperatorName", "GetImei", "GetOperatorName"}

C2_LabelsResolved ==
    InCollect =>
    /\ Len(Mine) > 0 /\ idx > 0 =>
         /\ \A r \in IdentityReads : \E i \in CallsOf(r) : calls[i].ok
         /\ \E i \in CallsOf("GetAccessTechnologies") :
                calls[i].ok /\ calls[i].arg = 1
    /\ \A i \in DOMAIN ch :
         ch[i].kind # "up" =>
             \E m \in 1..Len(modems) :
                 /\ ch[i].labels.imei = IdOf(m)
                 /\ ch[i].labels.simIdent = IdOf(m)
                 /\ ch[i].labels.simImsi = IdOf(m)
                 /\ ch[i].labels.simOpIdent = IdOf(m)
                 /\ ch[i].labels.simOp = IdOf(m)
                 /\ ch[i].labels.opName = IdOf(m)
                 /\ ch[i].labels.rat # ""

\* the second modem of a pass was skipped for a list of two technologies,
\* the first one has its metrics
C2_Witness ==
    /\ pc = "loop" /\ idx = 2
    /\ \E i \in CallsOf("GetAccessTechnologies") : calls[i].ok /\ calls[i].arg = 2
    /\ Len(Mine) = 0
    /\ \E i \in DOMAIN ch : ch[i].kind = "registered" /\ ch[i].labels.imei = IdOf(1)

(***************************************************************************)
(* C5.  Enable is called only when the first read of the operational state *)
(* returned Disabled; when Enable fails it is the last call on that modem, *)
(* no metric is sent for it and Collect is at the loop head, from which    *)
(* the next modem is taken.                                                *)
(***************************************************************************)
C5_EnableOnlyWhenDisabled ==
    InCollect =>
    \A i \in CallsOf("Enable") :
        /\ i = 2
        /\ calls[1].call = "GetState" /\ calls[1].ok /\ calls[1].arg = "Disabled"
        /\ ~calls[i].ok => /\ Len(calls) = 2
                           /\ Len(Mine) = 0
                           /\ pc \in {"loop", "done"}
                           /\ pc = "loop" => ENABLED LoopHead
                           /\ pc = "done" => idx = Len(modems)

\* Enable failed on the first of two modems, Collect is at the loop head
C5_Witness ==
    /\ Len(modems) = 2 /\ idx = 1 /\ pc = "loop"
    /\ \E i \in CallsOf("Enable") : ~calls[i].ok

(***************************************************************************)
(* C6.  The registered and connected values sent for a modem, and the      *)
(* decision to run the reconciler, follow the second read of the           *)
(* operational state, not the first.                                       *)
(***************************************************************************)
C6_SecondReadDecides ==
    InCollect =>
    /\ \A i \in MineOf("registered") :
         /\ HasSecondRead
         /\ Mine[i].value = 1 <=> SecondRead \in {"Registered", "Connected"}
    /\ \A i \in MineOf("connected") :
         /\ HasSecondRead
         /\ Mine[i].value = 1 <=> SecondRead = "Connected"
    /\ CallsOf("GetBearers") # {} =>
         HasSecondRead /\ SecondRead = "Registered"
    /\ (HasSecondRead /\ SecondRead = "Registered" /\ apn # ""
          /\ pc # "GetBearers") => CallsOf("GetBearers") # {}

\* the first read returned Registered, the second Connected, and the
\* metrics say connected
C6_Witness ==
    /\ calls # <<>> /\ calls[1].call = "GetState" /\ calls[1].arg = "Registered"
    /\ HasSecondRead /\ SecondRead = "Connected"
    /\ CallsOf("GetBearers") = {}
    /\ \E i \in MineOf("connected") : Mine[i].value = 1

(***************************************************************************)
(* C7.  A bearer operation is performed only when the re-read state is     *)
(* Registered and an APN is configured.  A modem read as Disabled, enabled *)
(* with success, re-read as Registered, with no APN configured, gets no    *)
(* bearer operation and registered=1, connected=0.                         *)
(***************************************************************************)
C7_Scenario ==
    /\ apn = ""
    /\ Len(calls) >= 2
    /\ calls[1].call = "GetState" /\ calls[1].arg = "Disabled"
    /\ calls[2].call = "Enable" /\ calls[2].ok
    /\ HasSecondRead /\ SecondRead = "Registered"

C7_BearerOpsGuarded ==
    InCollect =>
    /\ \A i \in DOMAIN calls :
         calls[i].call \in BearerOps =>
             HasSecondRead /\ SecondRead = "Registered" /\ apn # ""
    /\ (C7_Scenario /\ pc # "EmitState") =>
         /\ Len(Mine) >= 2
         /\ Mine[1] = Metric("registered", LabelsOf(idx, "lte"), 1)
         /\ Mine[2] = Metric("connected", LabelsOf(idx, "lte"), 0)

C7_Witness == C7_Scenario /\ pc = "GetStateFailedReason"

(***************************************************************************)
(* C8 as stated.  After the bearers were handled exactly one Connect is    *)
(* attempted, never zero.                                                  *)
(***************************************************************************)
ReconcilerRan == InCollect /\ CallsOf("GetBearers") # {}
ReconcilerDone == ReconcilerRan /\ pc \notin {"Disconnect", "DeleteBearer", "GetSimpleModem", "Connect"}

C8_ExactlyOneConnect ==
    ReconcilerDone => Cardinality(CallsOf("Connect")) = 1

(***************************************************************************)
(* C8 amended.  For each bearer Disconnect is called right before          *)
(* DeleteBearer of that bearer; whatever the results, every bearer of the  *)
(* list is handled, in order; then GetSimpleModem is called, and Connect   *)
(* with the configured APN is attempted once when GetSimpleModem succeeded *)
(* and not at all when it failed.                                          *)
(***************************************************************************)
\* the number of bearers GetBearers returned
Listed == LET g == CHOOSE i \in CallsOf("GetBearers") : TRUE
          IN  IF calls[g].ok THEN calls[g].arg ELSE 0

\* the calls the reconciler makes
ReconcilerCalls == BearerOps \cup {"GetSimpleModem"}

C8_Order ==
    /\ \A j \in CallsOf("DeleteBearer") :
         /\ j > 1
         /\ calls[j - 1].call = "Disconnect"
         /\ calls[j - 1].arg = calls[j].arg
    /\ \A j \in CallsOf("Disconnect") :
         j < Len(calls) =>
             calls[j + 1].call = "DeleteBearer" /\ calls[j + 1].arg = calls[j].arg
    /\ \A j \in CallsOf("GetSimpleModem") \cup CallsOf("Connect") :
         LET g == CHOOSE i \in CallsOf("GetBearers") : TRUE
         IN  \A b \in 1..Listed :
                 /\ calls[g + 2 * b - 1] = [call |-> "Disconnect", arg |-> b,
                                            ok |-> calls[g + 2 * b - 1].ok]
                 /\ calls[g + 2 * b].call = "DeleteBearer"
                 /\ calls[g + 2 * b].arg = b
                 /\ g + 2 * b < j
    /\ \A b \in 1..MaxBearers + 1 :
         Cardinality({ j \in CallsOf("DeleteBearer") : calls[j].arg = b }) <= 1
    /\ Cardinality(CallsOf("Connect")) <= 1
    /\ \A j \in CallsOf("Connect") :
         /\ calls[j].arg = apn
         /\ calls[j - 1].call = "GetSimpleModem" /\ calls[j - 1].ok
    /\ ReconcilerDone =>
         /\ Cardinality(CallsOf("GetSimpleModem")) = 1
         /\ \A j \in CallsOf("GetSimpleModem") :
              Cardinality(CallsOf("Connect")) = IF calls[j].ok THEN 1 ELSE 0

\* C8 amended: a turn of Collect either made no call of the reconciler or
\* made them in the order of C8_Order
C8_Reconciler ==
    InCollect =>
        \/ \A i \in DOMAIN calls : calls[i].call \notin ReconcilerCalls
        \/ C8_Order

\* two bearers, both Disconnect and DeleteBearer failed on the first one,
\* the second one was handled and Connect was attempted
C8_Witness ==
    /\ ReconcilerDone /\ Listed = 2
    /\ \E j \in CallsOf("Disconnect") : calls[j].arg = 1 /\ ~calls[j].ok
    /\ \E j \in CallsOf("DeleteBearer") : calls[j].arg = 1 /\ ~calls[j].ok
    /\ \E j \in CallsOf("DeleteBearer") : calls[j].arg = 2 /\ calls[j].ok
    /\ CallsOf("Connect") # {}

(***************************************************************************)
(* C9.  Whatever the reconciler did, one registered and one connected      *)
(* metric are sent for the modem, registered=1 and connected=0 as read     *)
(* before the reconciliation, also when Connect succeeded.                 *)
(***************************************************************************)
C9_StateMetricsAfterReconciler ==
    InCollect =>
    /\ Cardinality(MineOf("registered")) <= 1
    /\ Cardinality(MineOf("connected")) <= 1
    /\ (ReconcilerDone /\ pc # "EmitState") =>
         /\ Len(Mine) >= 2
         /\ Mine[1] = Metric("registered", LabelsOf(idx, "lte"), 1)
         /\ Mine[2] = Metric("connected", LabelsOf(idx, "lte"), 0)
         /\ MineOf("registered") = {1}
         /\ MineOf("connected") = {2}

\* a bearer could not be deleted, Connect succeeded, and the metrics say
\* registered and not connected
C9_Witness ==
    /\ ReconcilerDone /\ pc = "loop"
    /\ \E j \in CallsOf("DeleteBearer") : ~calls[j].ok
    /\ \E j \in CallsOf("Connect") : calls[j].ok
    /\ MineOf("connected") = {2} /\ Mine[2].value = 0

(***************************************************************************)
(* C10.  When the listing succeeds exactly one up metric, of value 1, is   *)
(* sent, and it is sent before anything is done on a modem; when the       *)
(* listing fails nothing is sent.                                          *)
(***************************************************************************)
C10_UpOnce ==
    InCollect =>
    /\ pc = "listfail" => ch = <<>>
    /\ pc = "GetModems" => ch = <<>> /\ calls = <<>>
    /\ pc \notin {"GetModems", "listfail"} =>
         /\ Len(ch) >= 1
         /\ ch[1] = Metric("up", NoLabels, 1)
         /\ \A i \in DOMAIN ch : ch[i].kind = "up" => i = 1
    /\ (idx > 0 \/ calls # <<>>) => (base >= 1 /\ Len(ch) >= 1)

\* both modems of the list were skipped and up=1 is all that was sent
C10_Witness ==
    /\ pc = "done" /\ Len(modems) = 2 /\ idx = 2
    /\ ch = << Metric("up", NoLabels, 1) >>


(***************************************************************************)
(* C3.  In influxHandler, when the read of an identity field (IMEI, ICC,   *)
(* IMSI, SIM operator identifier, SIM operator name, network operator      *)
(* name) fails for a modem, nothing is written for that modem.             *)
(***************************************************************************)
C3_IdentityFailureWritesNothing ==
    InInflux =>
        ((\E r \in IdentityReads : \E i \in CallsOf(r) : ~calls[i].ok)
            => Len(Written) = 0)

(***************************************************************************)
(* C4.  In a pass of either handler over a list of modems, a modem skipped *)
(* on a failed identity read has nothing in the output; what was sent for  *)
(* the other modems is never changed by a later turn and carries their own *)
(* identity; every turn starts from the same local state; and the handler  *)
(* returns only after the turn of the last modem of the list.              *)
(***************************************************************************)
\* the modem an output line is about (0: none)
ModemOfMetric(x) == IF x.kind = "up" THEN 0 ELSE x.labels.simIdent
ModemOfRecord(x) == x.tags.simIdent

C4_State ==
    /\ \A k \in skipped :
         /\ \A i \in DOMAIN ch : ModemOfMetric(ch[i]) # IdOf(k)
         /\ \A i \in DOMAIN w : ModemOfRecord(w[i]) # IdOf(k)
    /\ pc \in {"done", "I_done"} => idx = Len(modems)
    /\ pc \in {"GetState1", "I_Get3gpp"} =>
         /\ state = "" /\ lv = NoLabels /\ tags = NoTags /\ fields = NoFields
         /\ calls = <<>> /\ bearers = <<>> /\ bi = 0
         /\ timestamp = 0 /\ bearerType = ""
    /\ InCollect =>
         /\ \A i \in 1..base : ModemOfMetric(ch[i]) < idx
         /\ \A i \in (base + 1)..Len(ch) : ModemOfMetric(ch[i]) \in {0, idx}
    /\ InInflux =>
         /\ \A i \in 1..base : ModemOfRecord(w[i]) < idx
         /\ \A i \in (base + 1)..Len(w) : ModemOfRecord(w[i]) \in {0, idx}

C4_Step ==
    /\ Len(ch') >= Len(ch) /\ SubSeq(ch', 1, Len(ch)) = ch
    /\ Len(w') >= Len(w) /\ SubSeq(w', 1, Len(w)) = w
    /\ skipped \subseteq skipped'

\* C4: C4_State holds in every state of a pass and every step of a pass
\* is a C4_Step
C4_SkipIsolated == [](C4_State) /\ [][C4_Step]_vars

\* the first of two modems was skipped on a failed identity read, the
\* second one has its output and the handler has returned
C4_Witness ==
    /\ Len(modems) = 2 /\ skipped = {1} /\ pc \in {"done", "I_done"}
    /\ \/ \E i \in DOMAIN ch : ch[i].kind = "registered" /\ ModemOfMetric(ch[i]) = 2
       \/ \E i \in DOMAIN w : w[i].m = "modem_status" /\ ModemOfRecord(w[i]) = 2

(***************************************************************************)
(* C11.  In influxHandler, when the listing of the modems fails the        *)
(* response has status 500, holds no line-protocol record (only the text   *)
(* of the error), and no read was made on any modem; the handler has       *)
(* returned.  The status is 500 in no other case.                          *)
(***************************************************************************)
\* the measurements of the line-protocol records influxHandler writes
Measurements ==
    {"modem_status", "modem_signal", "modem_bearer_stats",
     "modem_bearer_ip_config", "modem_bearer_ip6_config"}

C11_ListingFailure ==
    InInflux =>
        /\ pc = "I_listfail" =>
             /\ status = 500
             /\ \A i \in DOMAIN w : w[i].m \notin Measurements
             /\ Len(w) = 1 /\ w[1].m = "error getting modems"
             /\ calls = <<>> /\ idx = 0 /\ modems = <<>>
             /\ ~ENABLED NextInflux
        /\ status = 500 => pc = "I_listfail"
        /\ (\E i \in DOMAIN w : w[i].m \notin Measurements) => pc = "I_listfail"

\* the listing failed
C11_Witness == InInflux /\ pc = "I_listfail" /\ status = 500

(***************************************************************************)
(* C12.  In the output of either handler connected implies registered:     *)
(* Collect sends connected=1 for a modem only together with registered=1,  *)
(* and a modem_status record of influxHandler with connected=true has      *)
(* registered=true, whatever value of MMModemState the read returned and   *)
(* also when the read failed.                                              *)
(***************************************************************************)
\* the metrics of a kind Collect sent with the labels l
SentFor(kind, l) == { i \in DOMAIN ch : ch[i].kind = kind /\ ch[i].labels = l }

\* the modem_status records written
StatusRecords == { i \in DOMAIN w : w[i].m = "modem_status" }

C12_ConnectedImpliesRegistered ==
    /\ \A i \in DOMAIN ch :
         (ch[i].kind = "connected" /\ ch[i].value = 1) =>
             /\ SentFor("registered", ch[i].labels) # {}
             /\ \A j \in SentFor("registered", ch[i].labels) : ch[j].value = 1
    /\ \A i \in StatusRecords :
         w[i].fields.connected => w[i].fields.registered

\* a modem read as Connected was sent by Collect, or written by
\* influxHandler, as connected and registered
C12_Witness ==
    \/ /\ InCollect /\ HasSecondRead /\ SecondRead = "Connected"
       /\ \E i \in MineOf("connected") : Mine[i].value = 1
       /\ \E i \in MineOf("registered") : Mine[i].value = 1
    \/ /\ InInflux
       /\ \E i \in StatusRecords :
            /\ w[i].fields.state = "Connected"
            /\ w[i].fields.connected /\ w[i].fields.registered

(***************************************************************************)
(* C13.  In the output of either handler roaming implies registered:       *)
(* Collect sends roaming=1 for a modem only together with registered=1,    *)
(* and a modem_status record of influxHandler with roaming=true has        *)
(* registered=true, for every pair of results of the read of the           *)
(* operational state and the read of the registration state.               *)
(***************************************************************************)
C13_RoamingImpliesRegistered ==
    /\ \A i \in DOMAIN ch :
         (ch[i].kind = "roaming" /\ ch[i].value = 1) =>
             \E j \in SentFor("registered", ch[i].labels) : ch[j].value = 1
    /\ \A i \in StatusRecords :
         w[i].fields.roaming => w[i].fields.registered

(***************************************************************************)
(* C14.  In influxHandler, when the read of an optional field fails        *)
(* (power state, signal quality, location, registration state,            *)
(* operational state, operator code, message list) the modem's             *)
(* modem_status record does not hold the fields of that read.              *)
(***************************************************************************)
\* the optional reads and the fields of modem_status each one fills
OptionalReads ==
    { <<"GetPowerState", {"power_state"}>>,
      <<"GetSignalQuality", {"signal_quality", "signal_quality_recent"}>>,
      <<"GetLocation", {"cellid", "lac", "tac"}>>,
      <<"GetCurrentLocation", {"cellid", "lac", "tac"}>>,
      <<"GetRegistrationState", {"regstate", "roaming"}>>,
      <<"GetState", {"state", "registered", "connected"}>>,
      <<"GetOperatorCode", {"operatorcode"}>>,
      <<"GetMessaging", {"message_count"}>>,
      <<"List", {"message_count"}>> }

C14_FailedReadFieldAbsent ==
    InInflux =>
        \A i \in StatusRecords :
            i > base =>
                \A p \in OptionalReads :
                    (\E k \in CallsOf(p[1]) : ~calls[k].ok) =>
                        p[2] \cap DOMAIN w[i].fields = {}

(***************************************************************************)
(* C15.  In Collect, the first failure of a read that follows the          *)
(* registered and connected metrics (state-failed-reason, location,        *)
(* registration state, operator code, signal handle, Setup(enable),        *)
(* signal read) ends the modem's turn: the failed call is the last call    *)
(* made on the modem, Collect is at the loop head or has returned, and no  *)
(* metric is sent until the next modem's turn begins.  This is so for      *)
(* every one of these reads.                                               *)
(***************************************************************************)
\* the reads that follow the registered and connected metrics
TailReads ==
    {"GetStateFailedReason", "GetLocation", "GetCurrentLocation",
     "GetRegistrationState", "GetOperatorCode", "GetSignal",
     "GetCurrentSignals"}

\* the call at position k of the log is such a read, or Setup(enable)
IsTailRead(k) ==
    \/ calls[k].call \in TailReads
    \/ calls[k].call = "Setup" /\ calls[k].arg = 1

\* such a read has failed on the current modem
TailFailed == InCollect /\ \E k \in DOMAIN calls : IsTailRead(k) /\ ~calls[k].ok

C15_State ==
    TailFailed =>
        /\ \A k \in DOMAIN calls : (IsTailRead(k) /\ ~calls[k].ok) => k = Len(calls)
        /\ pc \in {"loop", "done"}
        /\ Cardinality(MineOf("registered")) = 1
        /\ Cardinality(MineOf("connected")) = 1

C15_Step ==
    TailFailed =>
        /\ ch' = ch
        /\ calls' = calls \/ (calls' = <<>> /\ idx' = idx + 1)

\* C15: C15_State holds in every state of a pass and every step taken after
\* such a failure is a C15_Step
C15_AbortAfterFailedRead == [](C15_State) /\ [][C15_Step]_vars

\* the read of the registration state failed after the location metrics
\* were sent: no roaming metric, and Collect is at the loop head
C15_Witness ==
    /\ InCollect /\ pc = "loop"
    /\ \E k \in CallsOf("GetRegistrationState") : ~calls[k].ok
    /\ MineOf("cellid") # {} /\ MineOf("roaming") = {}

(***************************************************************************)
(* C16 as stated.  In influxHandler, once a modem has passed the identity  *)
(* and access-technology reads, every later read is attempted whatever     *)
(* read failed before it: own numbers, power state, signal quality,        *)
(* location, registration state, operational state, operator code,         *)
(* messaging, signal setup and signal reads, and the reads of every        *)
(* bearer.                                                                 *)
(***************************************************************************)
\* the turn of the current modem got past the access-technology read
PastIdentity == InInflux /\ CallsOf("GetOwnNumbers") # {}

\* ... and is over
PushTurnOver == PastIdentity /\ pc = "I_loop"

\* the reads made once on every modem that got that far
StraightReads ==
    {"GetOwnNumbers", "GetPowerState", "GetSignalQuality", "GetLocation",
     "GetRegistrationState", "GetState", "GetOperatorCode", "GetMessaging",
     "GetSignal", "GetBearers"}

\* the reads made through a handle another read returned
HandleReads == {"GetCurrentLocation", "List", "Setup", "GetGsm", "GetLte"}

\* the reads made on each bearer
BearerReads == {"GetBearerType", "GetStats", "GetIp4Config", "GetIp6Config"}

C16_EveryReadAttempted ==
    PushTurnOver =>
        /\ \A r \in StraightReads \cup HandleReads : CallsOf(r) # {}
        /\ \A b \in 1..Listed : \A r \in BearerReads :
               \E k \in CallsOf(r) : calls[k].arg = b

(***************************************************************************)
(* C16 amended.  Every read that needs no handle of another read is made   *)
(* once whatever failed before it, and so are the four reads of every      *)
(* bearer listed.  A read made through a handle is made exactly when the   *)
(* read of the handle succeeded: GetCurrentLocation after GetLocation,     *)
(* List after GetMessaging, Setup(enable) after GetSignal, and GetGsm,     *)
(* GetLte and Setup(disable) after Setup(enable).  Exactly one             *)
(* modem_status record is written for the modem, and one record for every  *)
(* signal read and bearer read that succeeded.                             *)
(***************************************************************************)
\* the successful calls of a name, the calls of Setup with a flag
OkCallsOf(name) == { k \in CallsOf(name) : calls[k].ok }
SetupCalls(flag) == { k \in CallsOf("Setup") : calls[k].arg = flag }

\* the records of a measurement written during the current modem's turn
WrittenOf(m) == { i \in DOMAIN Written : Written[i].m = m }

\* the call made if and only if the handle was returned
MadeIff(made, handle) ==
    /\ Cardinality(made) = Cardinality({ k \in handle : calls[k].ok })
    /\ Cardinality(handle) = 1

C16_State ==
    /\ PastIdentity => Cardinality(WrittenOf("modem_status")) <= 1
    /\ (PastIdentity /\ CallsOf("GetSignal") # {}) =>
           Cardinality(WrittenOf("modem_status")) = 1
    /\ PushTurnOver =>
        /\ \A r \in StraightReads : Cardinality(CallsOf(r)) = 1
        /\ MadeIff(CallsOf("GetCurrentLocation"), CallsOf("GetLocation"))
        /\ MadeIff(CallsOf("List"), CallsOf("GetMessaging"))
        /\ MadeIff(SetupCalls(1), CallsOf("GetSignal"))
        /\ SetupCalls(1) # {} =>
             /\ MadeIff(CallsOf("GetGsm"), SetupCalls(1))
             /\ MadeIff(CallsOf("GetLte"), SetupCalls(1))
             /\ MadeIff(SetupCalls(0), SetupCalls(1))
        /\ SetupCalls(1) = {} =>
             CallsOf("GetGsm") \cup CallsOf("GetLte") \cup SetupCalls(0) = {}
        /\ \A r \in BearerReads :
             /\ Cardinality(CallsOf(r)) = Listed
             /\ \A b \in 1..Listed : \E k \in CallsOf(r) : calls[k].arg = b
        /\ Cardinality(WrittenOf("modem_signal")) =
               Cardinality(OkCallsOf("GetGsm")) + Cardinality(OkCallsOf("GetLte"))
        /\ Cardinality(WrittenOf("modem_bearer_stats")) =
               Cardinality(OkCallsOf("GetStats"))
        /\ Cardinality(WrittenOf("modem_bearer_ip_config")) =
               Cardinality(OkCallsOf("GetIp4Config"))
        /\ Cardinality(WrittenOf("modem_bearer_ip6_config")) =
               Cardinality(OkCallsOf("GetIp6Config"))

\* C16 amended, as an invariant of a request to /influx
C16_LaterFailuresNotFatal == InInflux => C16_State

\* GetLocation and Setup(enable) failed, and the modem has its modem_status
\* record and the record of a bearer read made after both failures
C16_Witness ==
    /\ PushTurnOver
    /\ \E k \in CallsOf("GetLocation") : ~calls[k].ok
    /\ \E k \in SetupCalls(1) : ~calls[k].ok
    /\ WrittenOf("modem_status") # {}
    /\ WrittenOf("modem_bearer_stats") # {}

(***************************************************************************)
(* C17 as stated.  In Collect a failure of Enable, DeleteBearer, Connect   *)
(* or Setup(disable) is only logged and never ends the modem's turn: when  *)
(* a turn ends on a failed call of these, that call is Setup(disable), the *)
(* last call of a full turn.                                               *)
(***************************************************************************)
\* the call at position k of the log changes the modem
IsSideEffect(k) ==
    \/ calls[k].call \in {"Enable", "DeleteBearer", "Connect"}
    \/ calls[k].call = "Setup" /\ calls[k].arg = 0

C17_SideEffectFailureOnlyLogged ==
    (InCollect /\ TurnOver /\ calls # <<>>) =>
        LET k == Len(calls)
        IN  (IsSideEffect(k) /\ ~calls[k].ok) => calls[k].call = "Setup"

(***************************************************************************)
(* C17 amended.  A failure of DeleteBearer or Connect is only logged: the  *)
(* turn goes on to the next call and, as in every turn that reaches the    *)
(* reads after the reconciler, registered and connected are sent.  A       *)
(* failure of Setup(disable) is only logged too: it is the last call of    *)
(* the turn, and every sample GetCurrentSignals returned has its rssi and  *)
(* rsrp metric, next to registered, connected and roaming.  A failure of   *)
(* Enable ends the modem's turn with no metric.                            *)
(***************************************************************************)
\* the number of samples GetCurrentSignals returned
Sampled == LET g == CHOOSE k \in CallsOf("GetCurrentSignals") : TRUE
           IN  IF calls[g].ok THEN calls[g].arg ELSE 0

C17_State ==
    /\ \A k \in CallsOf("DeleteBearer") \cup CallsOf("Connect") :
         /\ k = Len(calls) => ~TurnOver
         /\ (k < Len(calls) /\ calls[k].call = "Connect") => Len(Mine) >= 2
    /\ \A k \in SetupCalls(0) :
         /\ k = Len(calls) /\ TurnOver
         /\ CallsOf("GetCurrentSignals") # {}
         /\ Cardinality(MineOf("rssi")) = Sampled
         /\ Cardinality(MineOf("rsrp")) = Sampled
         /\ \A n \in 1..Sampled :
              /\ \E i \in MineOf("rssi") : Mine[i].value = Rssi(n)
              /\ \E i \in MineOf("rsrp") : Mine[i].value = Rsrp(n)
         /\ Cardinality(MineOf("registered")) = 1
         /\ Cardinality(MineOf("connected")) = 1
         /\ Cardinality(MineOf("roaming")) = 1
    /\ \A k \in CallsOf("Enable") :
         ~calls[k].ok => (k = Len(calls) /\ TurnOver /\ Len(Mine) = 0)

\* C17 amended, as an invariant of a request to /metrics
C17_LoggedSideEffects == InCollect => C17_State

\* Setup(disable) failed after a read of two samples, and both samples were
\* sent
C17_Witness ==
    /\ InCollect
    /\ \E k \in SetupCalls(0) : ~calls[k].ok
    /\ CallsOf("GetCurrentSignals") # {} /\ Sampled = 2
    /\ Cardinality(MineOf("rssi")) = 2 /\ Cardinality(MineOf("rsrp")) = 2

(***************************************************************************)
(* C18.  In one pass of Collect every pair of a metric kind and a label    *)
(* tuple is sent at most once, whatever number of samples the signal read  *)
(* returned.                                                               *)
(***************************************************************************)
C18_OneSamplePerKind ==
    InCollect =>
        \A i, j \in DOMAIN ch :
            (ch[i].kind = ch[j].kind /\ ch[i].labels = ch[j].labels) => i = j

(***************************************************************************)
(* C19.  For cell id, LAC and TAC each on its own: when the string the     *)
(* location read returned is a hexadecimal numeral that a 64-bit integer   *)
(* holds, Collect sends the metric once with the base-16 value of the      *)
(* string; when it is not (the empty string, a string with a character     *)
(* that is no hexadecimal digit or with a sign, a numeral too long to hold)*)
(* the metric is not sent, and the other two are sent or not by their own  *)
(* strings.                                                                *)
(***************************************************************************)
\* the hexadecimal digits and their values
HexChars ==
    { <<"0", 0>>, <<"1", 1>>, <<"2", 2>>, <<"3", 3>>, <<"4", 4>>, <<"5", 5>>,
      <<"6", 6>>, <<"7", 7>>, <<"8", 8>>, <<"9", 9>>,
      <<"a", 10>>, <<"b", 11>>, <<"c", 12>>, <<"d", 13>>, <<"e", 14>>, <<"f", 15>>,
      <<"A", 10>>, <<"B", 11>>, <<"C", 12>>, <<"D", 13>>, <<"E", 14>>, <<"F", 15>> }

\* s is a hexadecimal numeral: digits only, at least one
IsHexNumeral(s) ==
    Len(s) > 0 /\ \A i \in DOMAIN s : \E p \in HexChars : p[1] = s[i]

\* the value of the hexadecimal digit c
HexDigitValue(c) == (CHOOSE p \in HexChars : p[1] = c)[2]

\* the position of the first digit of s that is not 0 (Len(s) + 1: none)
FirstNonZero(s) ==
    IF \E i \in DOMAIN s : s[i] # "0"
    THEN CHOOSE i \in DOMAIN s : s[i] # "0" /\ \A j \in 1..(i - 1) : s[j] = "0"
    ELSE Len(s) + 1

\* the numeral denotes a number below 2^63
FitsInt64(s) ==
    LET n == Len(s) - FirstNonZero(s) + 1
    IN  n < 16 \/ (n = 16 /\ HexDigitValue(s[FirstNonZero(s)]) < 8)

\* the number the numeral denotes, from its last digit
RECURSIVE HexValue(_)
HexValue(s) ==
    IF Len(s) = 0 THEN 0
    ELSE 16 * HexValue(SubSeq(s, 1, Len(s) - 1)) + HexDigitValue(s[Len(s)])

\* the metric of a kind sent for the string field
DecodedAs(kind, field) ==
    IF IsHexNumeral(field) /\ FitsInt64(field)
    THEN /\ Cardinality(MineOf(kind)) = 1
         /\ \A i \in MineOf(kind) : Mine[i].value = HexValue(field)
    ELSE MineOf(kind) = {}

C19_HexDecoded ==
    InCollect =>
        \A k \in OkCallsOf("GetCurrentLocation") :
            /\ DecodedAs("cellid", calls[k].arg.Ci)
            /\ DecodedAs("lac", calls[k].arg.Lac)
            /\ DecodedAs("tac", calls[k].arg.Tac)

(***************************************************************************)
(* C20.  When the operator code a modem returned is not a decimal integer  *)
(* and not empty, neither emitter writes an operator code for the modem in *)
(* that pass: Collect sends no operatorcode metric and the modem_status    *)
(* record of influxHandler has no operatorcode field.  When the code is    *)
(* the empty string, no operator code other than 0 is written.             *)
(***************************************************************************)
\* the decimal digits
DecimalChars == {"0", "1", "2", "3", "4", "5", "6", "7", "8", "9"}

\* s is a decimal integer: decimal digits only, at least one
IsDecimalInteger(s) == Len(s) > 0 /\ \A i \in DOMAIN s : s[i] \in DecimalChars

\* the operator codes read from the current modem
OperatorCodes == { calls[k].arg : k \in OkCallsOf("GetOperatorCode") }

\* the modem_status records written during the current modem's turn
MyStatus == { i \in StatusRecords : i > base }

C20_NonNumericOperatorCodeOmitted ==
    \A code \in OperatorCodes :
        /\ (code # <<>> /\ ~IsDecimalInteger(code)) =>
               /\ InCollect => MineOf("operatorcode") = {}
               /\ InInflux =>
                      \A i \in MyStatus : "operatorcode" \notin DOMAIN w[i].fields
        /\ code = <<>> =>
               /\ InCollect => \A i \in MineOf("operatorcode") : Mine[i].value = 0
               /\ InInflux =>
                      \A i \in MyStatus :
                          "operatorcode" \in DOMAIN w[i].fields =>
                              w[i].fields.operatorcode = 0

(***************************************************************************)
(* C21.  In influxHandler, when the access-technology read succeeds the    *)
(* rat tag is the lowercased first entry of the list (the further entries  *)
(* are dropped, never concatenated) or the empty string when the list is   *)
(* empty, and in both cases the modem's turn goes on to its modem_status   *)
(* record, which carries that tag; when the read fails the modem's turn    *)
(* ends there with nothing written.                                        *)
(***************************************************************************)
\* the access-technology names and their lowercase forms
LowercaseNames == { <<"Lte", "lte">>, <<"Umts", "umts">>, <<"Gsm", "gsm">> }

\* the rat tag of a list of technologies
FirstLowercased(l) ==
    IF Len(l) = 0 THEN ""
    ELSE (CHOOSE p \in LowercaseNames : p[1] = l[1])[2]

C21_RatTag ==
    InInflux =>
        \A k \in CallsOf("GetAccessTechnologies") :
            IF calls[k].ok
            THEN /\ tags.rat = FirstLowercased(calls[k].arg)
                 /\ \A i \in DOMAIN Written :
                        Written[i].tags.rat = FirstLowercased(calls[k].arg)
                 /\ pc \in {"I_loop", "I_done"} =>
                        Cardinality(WrittenOf("modem_status")) = 1
            ELSE /\ k = Len(calls)
                 /\ pc \in {"I_loop", "I_done"}
                 /\ Written = <<>>

\* a turn with a list of two technologies has ended with its records written
C21_Witness ==
    /\ PushTurnOver
    /\ \E k \in OkCallsOf("GetAccessTechnologies") :
           /\ Len(calls[k].arg) >= 2
           /\ calls[k].arg[1] # calls[k].arg[2]
    /\ \E i \in WrittenOf("modem_status") : Written[i].tags.rat = "umts"
    /\ WrittenOf("modem_bearer_stats") # {}

(***************************************************************************)
(* C22.  In influxHandler all the records written for one modem in one     *)
(* request (modem_status, modem_signal, modem_bearer_stats,                *)
(* modem_bearer_ip_config, modem_bearer_ip6_config) carry one timestamp:   *)
(* the time taken once in the modem's turn, before its first record is     *)
(* written, although time passes between the records.                      *)
(***************************************************************************)
\* the measurements of a modem
ModemRecords ==
    {"modem_status", "modem_signal", "modem_bearer_stats",
     "modem_bearer_ip_config", "modem_bearer_ip6_config"}

\* every record of the current modem carries the timestamp taken
C22_State ==
    InInflux =>
        \A i \in DOMAIN Written :
            Written[i].m \in ModemRecords =>
                /\ Written[i].ts = timestamp
                /\ timestamp > 0
                /\ \A j \in DOMAIN Written :
                       Written[j].m \in ModemRecords => Written[j].ts = Written[i].ts

\* the timestamp is taken once in a turn, from the clock, with no record of
\* the modem written yet; it is given up when the next turn begins
C22_Step ==
    (InInflux /\ timestamp' # timestamp) =>
        \/ /\ pc = "I_GetOwnNumbers"
           /\ timestamp = 0
           /\ timestamp' = now
           /\ Written = <<>>
        \/ /\ pc = "I_loop"
           /\ timestamp' = 0
           /\ calls' = <<>>

C22_OneTimestamp == [](C22_State) /\ [][C22_Step]_vars

\* the records of a modem written before and after the settling delay
C22_Witness ==
    /\ PushTurnOver
    /\ now > timestamp
    /\ WrittenOf("modem_status") # {}
    /\ WrittenOf("modem_signal") # {}
    /\ WrittenOf("modem_bearer_ip6_config") # {}

(***************************************************************************)
(* C23.  In influxHandler, for every modem on which Setup(enable)          *)
(* succeeded, Setup(disable) is called exactly once afterwards in the same *)
(* request, after the GSM read and the LTE read have both been made,       *)
(* whether each of them succeeded or failed; Setup(disable) is never       *)
(* called for a modem whose Setup(enable) failed or was not attempted.     *)
(***************************************************************************)
\* the places of influxHandler between Setup(enable) and Setup(disable)
InSignalBlock == pc \in {"I_Sleep", "I_GetGsm", "I_GetLte", "I_SetupDisable"}

C23_DisableAfterEnable ==
    InInflux =>
        /\ Cardinality(SetupCalls(1)) <= 1
        /\ Cardinality(SetupCalls(0)) <= 1
        /\ \A k \in SetupCalls(0) :
               \E j \in SetupCalls(1) :
                   /\ calls[j].ok
                   /\ j < k
                   /\ \E g \in CallsOf("GetGsm") : j < g /\ g < k
                   /\ \E l \in CallsOf("GetLte") : j < l /\ l < k
        /\ \A j \in SetupCalls(1) :
               (calls[j].ok /\ ~InSignalBlock) =>
                   \E k \in SetupCalls(0) : j < k
        /\ InSignalBlock =>
               /\ \E j \in SetupCalls(1) : calls[j].ok
               /\ SetupCalls(0) = {}

\* a turn in which both signal reads failed has ended
C23_Witness ==
    /\ PushTurnOver
    /\ \E j \in SetupCalls(1) : calls[j].ok
    /\ \E g \in CallsOf("GetGsm") : ~calls[g].ok
    /\ \E l \in CallsOf("GetLte") : ~calls[l].ok
    /\ SetupCalls(0) # {}

(***************************************************************************)
(* C24.  In both handlers, within one pass and for each modem, a signal    *)
(* read (GetCurrentSignals, GetGsm, GetLte) is made only after             *)
(* Setup(enable) succeeded on the modem in that pass and the settling      *)
(* delay has passed, and before the pass's Setup(disable); when            *)
(* Setup(enable) fails or is not attempted, no signal read is made and no  *)
(* signal metric or record is written for the modem.                       *)
(***************************************************************************)
\* the signal reads and the positions of their calls in the log
SignalReads == {"GetCurrentSignals", "GetGsm", "GetLte"}
SignalReadCalls == { r \in DOMAIN calls : calls[r].call \in SignalReads }

\* the signal metrics and records of the current modem
SignalOutput ==
    { i \in DOMAIN Mine : Mine[i].kind \in {"rssi", "rsrp"} } \cup WrittenOf("modem_signal")

\* the places of the delay and of the reads that follow it
DelayPlaces == {"Sleep", "I_Sleep"}
FirstReadPlaces == {"GetCurrentSignals", "I_GetGsm"}

C24_State ==
    /\ \A r \in SignalReadCalls :
           /\ \E j \in SetupCalls(1) : calls[j].ok /\ j < r
           /\ \A k \in SetupCalls(0) : r < k
    /\ (\A j \in SetupCalls(1) : ~calls[j].ok) =>
           /\ SignalReadCalls = {}
           /\ SignalOutput = {}
    /\ pc \in DelayPlaces =>
           /\ calls # <<>>
           /\ calls[Len(calls)] = [call |-> "Setup", arg |-> 1, ok |-> TRUE]

\* a first signal read is reached through the delay alone, during which
\* time passes and no call is made; a signal read is made at its place
C24_Step ==
    /\ (pc' # pc /\ pc' \in FirstReadPlaces) =>
           /\ pc \in DelayPlaces
           /\ now' > now
           /\ calls' = calls
    /\ (pc' # pc /\ pc' = "I_GetLte") => pc = "I_GetGsm"
    /\ (Len(calls') = Len(calls) + 1 /\ calls'[Len(calls')].call \in SignalReads) =>
           pc \in FirstReadPlaces \cup {"I_GetLte"}

C24_ReadBetweenSetups == [](C24_State) /\ [][C24_Step]_vars

\* a modem whose signals were read and written, with Setup(disable) called
C24_Witness ==
    /\ \E r \in SignalReadCalls : calls[r].ok
    /\ SignalOutput # {}
    /\ SetupCalls(0) # {}
    /\ now > 1

(***************************************************************************)
(* C25.  With two requests in flight (any mix of /metrics and /influx),    *)
(* from a request's successful Setup(enable) on a modem to its signal      *)
(* reads on that modem no other request's Setup(disable) takes effect on   *)
(* the modem: the request finds the rate it set still raised.              *)
(***************************************************************************)
\* request r is between its successful Setup(enable) and its last signal read
Armed(r) == reqs[r].pc \in {"Sleep", "GetCurrentSignals", "GetGsm", "GetLte"}

C25_SignalAcquisitionExclusive ==
    \A r \in DOMAIN reqs : Armed(r) => rate[reqs[r].idx] = 1

(***************************************************************************)
(* C26.  A request to /influx never calls Enable, Disconnect, DeleteBearer *)
(* or Connect on a modem, whatever the modem's state and whatever the APN: *)
(* every call influxHandler makes on a modem is a read, or Setup(1) or     *)
(* Setup(0) of the signal, so the request leaves the bearers and the       *)
(* enabled state of every modem as they were.                              *)
(***************************************************************************)
\* the calls that change a modem's bearers or its enabled state
StateChanging == {"Enable", "Disconnect", "DeleteBearer", "Connect"}

\* the reads influxHandler makes on a modem, on its SIM and on its bearers
PushReads ==
    {"Get3gpp", "GetImei", "GetSim", "GetSimIdentifier", "GetImsi",
     "GetOperatorIdentifier", "GetSimOperatorName", "GetOperatorName", "GetMcc",
     "GetMnc", "GetAccessTechnologies", "GetOwnNumbers", "GetPowerState",
     "GetSignalQuality", "GetLocation", "GetCurrentLocation",
     "GetRegistrationState", "GetState", "GetOperatorCode", "GetMessaging",
     "List", "GetSignal", "GetGsm", "GetLte", "GetBearers", "GetBearerType",
     "GetStats", "GetIp4Config", "GetIp6Config"}

C26_PushChangesNothing ==
    InInflux =>
        \A k \in DOMAIN calls :
            /\ calls[k].call \notin StateChanging
            /\ \/ calls[k].call \in PushReads
               \/ calls[k].call = "Setup" /\ calls[k].arg \in {0, 1}

\* the turn of a disabled modem with a bearer, an APN being configured, has
\* ended
C26_Witness ==
    /\ PushTurnOver
    /\ apn # ""
    /\ \E k \in OkCallsOf("GetState") : calls[k].arg = "Disabled"
    /\ \E k \in OkCallsOf("GetBearers") : calls[k].arg >= 1
    /\ SetupCalls(0) # {}

(***************************************************************************)
(* C27.  For every value of the operational state the two handlers         *)
(* classify the modem alike: the registered gauge Collect sends for a      *)
(* state is 1 exactly when influxHandler's registered field is true for    *)
(* that state, and the connected gauge is 1 exactly when the connected     *)
(* field is true.                                                          *)
(***************************************************************************)
\* the states influxHandler read on the current modem
PushStates == { calls[k].arg : k \in OkCallsOf("GetState") }

C27_SameClassification ==
    /\ (InCollect /\ HasSecondRead) =>
           /\ \A i \in MineOf("registered") :
                  Mine[i].value = 1 <=> I_IsRegistered(SecondRead)
           /\ \A i \in MineOf("connected") :
                  Mine[i].value = 1 <=> I_IsConnected(SecondRead)
    /\ InInflux =>
           \A s \in PushStates : \A i \in MyStatus :
               /\ w[i].fields.registered <=> IsRegistered(s) = 1
               /\ w[i].fields.connected <=> IsConnected(s) = 1

====
